---- MODULE Spec2Model ----
(***************************************************************************)
(* A model of the persona-driven response / sentiment pipeline of the      *)
(* MeshAI backend.  Two implementations of the same HTTP surface live in   *)
(* the repository and both are modelled:                                   *)
(*   - app.py + crew_manager.py  (the Flask app and its CrewManager; the   *)
(*     personas are JSON files, the calls go through a CrewAI crew);       *)
(*   - api/conversations.py      (the `conversations` blueprint; the       *)
(*     personas are rows of the Persona table, the calls go through a      *)
(*     PersonaAgent with its own conversation memory).                     *)
(* One request is served at a time; every Response Generator call is one   *)
(* step whose outcome (text returned, or exception raised) is chosen by    *)
(* the environment.                                                        *)
(***************************************************************************)
EXTENDS Integers, Sequences, FiniteSets, TLC

(***************************************************************************)
(* Bounds of the model.                                                    *)
(***************************************************************************)
\* longest persona list of a request body
MaxPersonas == 4
\* most Response Generator calls that fail within one request
MaxFailures == 1
\* most rounds of earlier messages a /api/focus-group-round body carries
MaxPrevRounds == 2
\* longest initial_reactions list the summary figures are computed for
MaxShiftReactions == 2
\* longest sentiment_intervals list the summary figures are computed for
MaxShiftRounds == 2
\* most different words of a response text the keyword count is taken of
MaxWords == 6
\* most personas of a focus-group request whose termination is checked
MaxLivePersonas == 2
\* most process_message calls made of one PersonaAgent
MaxTurns == 8
\* most traits of a persona's personality_traits
MaxTraits == 2
\* most add_to_memory calls made of one agent between two resets
MaxAdds == 52
\* latest second of the clock save_persona reads
MaxClock == 1
\* most personas saved
MaxSaves == 2
MaxGroupRounds == 3

(***************************************************************************)
(* Program constants.                                                      *)
(***************************************************************************)
\* discussion rounds of a focus group: range(3), range(1, 4)
FocusRounds == 3
\* rounds of the blueprint's group discussion: range(2)
GroupRounds == 2
\* transcript window of the focus-group prompts: discussion_messages[-6:]
FocusWindow == 6
\* transcript window of the blueprint's group discussion: [-3:]
GroupWindow == 3
\* memory entries a PersonaAgent prompt carries: get_memory_context(limit=5)
MemoryLimit == 5
\* entries kept by BaseAgent.add_to_memory
MemoryCap == 50
\* the bias-driven policy's threshold 0.2, in hundredths
BiasThreshold == 20
\* the clamp of the keyword-count policy: min(5, ..), max(-5, ..)
ScoreClamp == 5

(***************************************************************************)
(* Sequences, sums and exact quotients.                                    *)
(***************************************************************************)
\* Python's s[:n] and s[-n:] for n > 0
FirstN(s, n) == IF Len(s) <= n THEN s ELSE SubSeq(s, 1, n)
LastN(s, n) == IF Len(s) <= n THEN s ELSE SubSeq(s, Len(s) - n + 1, Len(s))

RECURSIVE SumSeq(_)
SumSeq(s) == IF s = <<>> THEN 0 ELSE s[1] + SumSeq(Tail(s))

Scores(msgs) == [i \in DOMAIN msgs |-> msgs[i].sentiment_score]

\* t is s with some entries left out, the order kept
RECURSIVE IsSubSeq(_, _)
IsSubSeq(t, s) ==
    IF t = <<>> THEN TRUE
    ELSE IF s = <<>> THEN FALSE
    ELSE IF t[1] = s[1] THEN IsSubSeq(Tail(t), Tail(s))
    ELSE IsSubSeq(t, Tail(s))

\* A number of the program is kept as an exact quotient num/den; den = 0 is
\* the ZeroDivisionError Python raises for x / 0.
Num(n) == [num |-> n, den |-> 1]
Div(n, d) == [num |-> n, den |-> d]
IsZeroDivisionError(q) == q.den = 0
QEq(p, q) == p.den # 0 /\ q.den # 0 /\ p.num * q.den = q.num * p.den
QSub(p, q) ==
    IF p.den = 0 \/ q.den = 0 THEN Div(0, 0)
    ELSE Div(p.num * q.den - q.num * p.den, p.den * q.den)

(***************************************************************************)
(* Persona identifiers are strings; str.replace works on their characters. *)
(***************************************************************************)
Replace(s, old, new) == [i \in DOMAIN s |-> IF s[i] = old THEN new ELSE s[i]]

Id_a  == <<"a">>
Id_cd == <<"c", "-", "d">>
Id_c_d == <<"c", "_", "d">>
Id_e_f == <<"e", "_", "f">>
Id_ef == <<"e", "-", "f">>
Id_x  == <<"x">>

\* the identifiers a request may name
IdPool == {Id_a, Id_cd, Id_c_d, Id_e_f, Id_ef, Id_x}

\* a fixed order of the pool; request lists follow it forwards or backwards
PoolOrder == <<Id_a, Id_cd, Id_c_d, Id_e_f, Id_ef, Id_x>>

PoolIndex(id) == CHOOSE i \in DOMAIN PoolOrder : PoolOrder[i] = id

Ascending(s) == \A i \in 1..(Len(s) - 1) : PoolIndex(s[i]) < PoolIndex(s[i + 1])
Descending(s) == \A i \in 1..(Len(s) - 1) : PoolIndex(s[i]) > PoolIndex(s[i + 1])

\* the persona lists of the request bodies: ids unique within a request
PersonaLists ==
    {s \in UNION {[1..n -> IdPool] : n \in 0..MaxPersonas} :
        Ascending(s) \/ Descending(s)}

(***************************************************************************)
(* Texts.  A text is a sequence of tokens; the empty text is <<>>.         *)
(***************************************************************************)
Strip(s) ==
    LET keep == {i \in DOMAIN s : s[i] # " "}
    IN IF keep = {} THEN <<>>
       ELSE LET lo == CHOOSE i \in keep : \A j \in keep : i <= j
                hi == CHOOSE i \in keep : \A j \in keep : j <= i
            IN SubSeq(s, lo, hi)

\* the question / campaign_description values of the request bodies
TextInputs == {<<>>, <<" ">>, <<"q">>}

\* what the Response Generator returns when it returns
T_great == <<"great", "wonderful">>
T_empty == <<>>
Texts == {T_great, T_empty}

positive_words ==
    {"great", "excellent", "amazing", "wonderful", "fantastic", "love",
     "brilliant", "outstanding", "perfect", "impressive", "innovative",
     "exciting", "valuable", "effective", "successful"}
negative_words ==
    {"terrible", "awful", "horrible", "hate", "disgusting", "worst",
     "disappointing", "useless", "failed", "broken", "concerning",
     "problematic", "challenging", "difficult", "expensive"}

Min(a, b) == IF a < b THEN a ELSE b
Max(a, b) == IF a > b THEN a ELSE b

\* str.lower on the words of the texts: "Great" is the one with a capital
Lower(word) == IF word = "Great" THEN "great" ELSE word

\* the keywords that are substrings of a lower-case word: the word itself if
\* it is a keyword, "hate" in "hateful"
KeywordsWithin(word) ==
    IF word = "hateful" THEN {"hate"}
    ELSE IF word \in positive_words \cup negative_words THEN {word}
    ELSE {}

\* the keywords `word in text_lower` finds in a text
KeywordsIn(text) == UNION {KeywordsWithin(Lower(text[i])) : i \in DOMAIN text}

AnalyzeSentimentUnclamped(text) ==
    LET positive_count == Cardinality(positive_words \cap KeywordsIn(text))
        negative_count == Cardinality(negative_words \cap KeywordsIn(text))
    IN IF positive_count > negative_count
       THEN [sentiment |-> "positive", score |-> positive_count - negative_count]
       ELSE IF negative_count > positive_count
       THEN [sentiment |-> "negative", score |-> -(negative_count - positive_count)]
       ELSE [sentiment |-> "neutral", score |-> 0]

\* CrewManager._analyze_sentiment: the keyword-count policy.  Every keyword
\* that is a substring of the lower-cased text counts once, however often it
\* occurs.
AnalyzeSentiment(text) ==
    LET text_lower == KeywordsIn(text)
        positive_count == Cardinality(positive_words \cap text_lower)
        negative_count == Cardinality(negative_words \cap text_lower)
    IN IF positive_count > negative_count
       THEN [sentiment |-> "positive",
             score |-> Min(ScoreClamp, positive_count - negative_count)]
       ELSE IF negative_count > positive_count
       THEN [sentiment |-> "negative",
             score |-> Max(-ScoreClamp, -(negative_count - positive_count))]
       ELSE [sentiment |-> "neutral", score |-> 0]

\* the handlers of conversations.py: the bias-driven policy
BiasSentiment(sentiment_bias, content) ==
    IF content # <<>> /\ sentiment_bias > BiasThreshold
    THEN [sentiment |-> "positive", score |-> 1]
    ELSE IF content # <<>> /\ sentiment_bias < -BiasThreshold
    THEN [sentiment |-> "negative", score |-> -1]
    ELSE [sentiment |-> "neutral", score |-> 0]

\* the literal texts of the except branches
FallbackSimple   == <<"I'd like to think more about this question: {question}">>
FallbackGroup    == <<"I need more time to consider this aspect of the question.">>
FallbackInitial  == <<"I'd like to learn more about this campaign before sharing my thoughts.">>
FallbackRound    == <<"I'm still processing the information from this round.">>
FallbackSummary  == <<"Summary generation encountered an error.">>
NoAgentsSummary  == <<"No agents available for summary generation.">>
ExceptionText    == <<"{e}">>

(***************************************************************************)
(* The two persona stores.                                                 *)
(***************************************************************************)
\* the JSON files of the personas directory (file names without .json)
PersonaFiles == {Id_cd, Id_e_f}

\* the rows of the Persona table: sentiment_bias in hundredths
PersonaRows ==
    {[id |-> Id_a,   is_active |-> TRUE,  sentiment_bias |-> 50],
     [id |-> Id_cd,  is_active |-> TRUE,  sentiment_bias |-> -50],
     [id |-> Id_c_d, is_active |-> TRUE,  sentiment_bias |-> 20],
     [id |-> Id_e_f, is_active |-> TRUE,  sentiment_bias |-> 0],
     [id |-> Id_ef,  is_active |-> FALSE, sentiment_bias |-> 50]}

\* PersonaService.get_persona: the active row of that id, if any
GetPersona(persona_id) ==
    {r \in PersonaRows : r.id = persona_id /\ r.is_active}

\* the active rows among the ids, in the order of the table
GetPersonasInTableOrder(persona_ids) ==
    SelectSeq(PoolOrder,
              LAMBDA id : /\ \E i \in DOMAIN persona_ids : persona_ids[i] = id
                          /\ GetPersona(id) # {})

\* the ids themselves if every one has an active row, none otherwise
GetPersonasAllOrNone(persona_ids) ==
    IF \A i \in DOMAIN persona_ids : GetPersona(persona_ids[i]) # {}
    THEN persona_ids ELSE <<>>

\* PersonaService.get_personas_by_ids: the ids whose row is active, in order
GetPersonasByIds(persona_ids) ==
    SelectSeq(persona_ids, LAMBDA id : GetPersona(id) # {})

SentimentBiasOf(persona_id) ==
    (CHOOSE r \in PersonaRows : r.id = persona_id).sentiment_bias

\* CrewManager.create_agent: does the lookup of persona_id find a persona
\* (the id itself, its underscores as hyphens, its hyphens as underscores)
CreateAgentResolves(persona_id) ==
    IF persona_id \in PersonaFiles THEN TRUE
    ELSE IF Replace(persona_id, "_", "-") \in PersonaFiles THEN TRUE
    ELSE IF Replace(persona_id, "-", "_") \in PersonaFiles THEN TRUE
    ELSE FALSE

\* run_simple_interaction, run_group_discussion, focus_group_round:
\* agent_name = persona_id.replace('-', '_'); create_agent(agent_name)
AgentName(persona_id) == Replace(persona_id, "-", "_")
ByAgentName(selected_personas) ==
    SelectSeq(selected_personas, LAMBDA id : CreateAgentResolves(AgentName(id)))
\* run_focus_group_simulation: create_agent(persona_id)
ByPersonaId(selected_personas) ==
    SelectSeq(selected_personas, LAMBDA id : CreateAgentResolves(id))

(***************************************************************************)
(* PersonaAgent: conversation memory and prompt.                           *)
(***************************************************************************)
\* BaseAgent.add_to_memory
AddToMemoryUncapped(conversation_history, message, response) ==
    Append(conversation_history, [message |-> message, response |-> response])
AddToMemory(conversation_history, message, response) ==
    LET appended == Append(conversation_history,
                           [message |-> message, response |-> response])
    IN IF Len(appended) > MemoryCap THEN LastN(appended, MemoryCap) ELSE appended

\* BaseAgent.get_memory_context(limit)
GetMemoryContextAll(conversation_history, limit) == conversation_history
GetMemoryContext(conversation_history, limit) ==
    IF conversation_history = <<>> THEN <<>>
    ELSE LastN(conversation_history, limit)

\* PersonaAgent._build_prompt: the memory part, then the message
BuildPrompt(conversation_history, message) ==
    [memory |-> GetMemoryContext(conversation_history, MemoryLimit),
     message |-> message]

(***************************************************************************)
(* The state: the request being served and what its handler has built.     *)
(***************************************************************************)
VARIABLES
    handler,              \* the route function serving the request, or "none"
    req,                  \* the JSON body of the request
    stub,                 \* the text the Response Generator returns in this request
    pc,                   \* the handler's position: idle, initial, round, summary, done
    round_num,            \* the loop variable round_num of the handler
    idx,                  \* position in the persona loop (1-based)
    personas,             \* the resolved personas (personas / agents_data), in order
    agents,               \* conversation_history of every PersonaAgent of the request
    reactions,            \* simple-interaction: the reactions list
    initial_reactions,    \* focus-group: the initial_reactions list
    discussion_messages,  \* the accumulated discussion transcript
    round_messages,       \* the messages of the running round
    persona_sentiments,   \* blueprint focus-group: the dict of the running round
    sentiment_intervals,  \* focus-group: the interval snapshots
    final_summary,        \* focus-group: the final summary
    response,             \* the HTTP response, status 0 while there is none
    calls,                \* every Response Generator call issued, with its prompt
    failures              \* how many of them raised

vars == <<handler, req, stub, pc, round_num, idx, personas, agents, reactions,
          initial_reactions, discussion_messages, round_messages,
          persona_sentiments, sentiment_intervals, final_summary, response,
          calls, failures>>

EmptyDict == [k \in {} |-> 0]
DictSet(d, k, v) == [x \in (DOMAIN d) \cup {k} |-> IF x = k THEN v ELSE d[x]]

RECURSIVE SumOver(_, _)
SumOver(d, keys) ==
    IF keys = {} THEN 0
    ELSE LET k == CHOOSE x \in keys : TRUE
         IN d[k] + SumOver(d, keys \ {k})
\* sum(d.values())
SumValues(d) == SumOver(d, DOMAIN d)

NoBody == [keys |-> {}, text |-> <<>>, personas |-> <<>>,
           initial_reactions |-> <<>>, round_number |-> 1,
           previous_messages |-> <<>>]
NoSummary == [kind |-> "none", text |-> <<>>,
              overall_sentiment |-> Num(0), sentiment_shift |-> Num(0)]
NoResponse == [status |-> 0, error |-> ""]
Ok200 == [status |-> 200, error |-> ""]

\* The JSON objects a client posts: "text" is the question (the
\* campaign_description of the focus-group routes); a key may be missing.
Bodies ==
    {[keys |-> k, text |-> t, personas |-> l, initial_reactions |-> <<>>,
      round_number |-> 1, previous_messages |-> <<>>] :
        k \in SUBSET {"text", "personas"}, t \in TextInputs, l \in PersonaLists}

WellFormed(body) ==
    /\ "text" \notin body.keys => body.text = <<>>
    /\ "personas" \notin body.keys => body.personas = <<>>

\* data.get(key, default)
GetText(body) == IF "text" \in body.keys THEN body.text ELSE <<>>
GetPersonas(body) == IF "personas" \in body.keys THEN body.personas ELSE <<>>

Init ==
    /\ handler = "none"
    /\ req = NoBody
    /\ stub = T_empty
    /\ pc = "idle"
    /\ round_num = 0
    /\ idx = 1
    /\ personas = <<>>
    /\ agents = [id \in IdPool |-> <<>>]
    /\ reactions = <<>>
    /\ initial_reactions = <<>>
    /\ discussion_messages = <<>>
    /\ round_messages = <<>>
    /\ persona_sentiments = EmptyDict
    /\ sentiment_intervals = <<>>
    /\ final_summary = NoSummary
    /\ response = NoResponse
    /\ calls = <<>>
    /\ failures = 0

\* what a Response Generator call can do: return the text, or raise
Outcomes == {"ok"} \cup (IF failures < MaxFailures THEN {"raise"} ELSE {})

Counted(outcome) == IF outcome = "raise" THEN failures + 1 ELSE failures

\* the handler answers with an error before any persona loop
Reject(h, body, status, error) ==
    /\ handler' = h
    /\ req' = body
    /\ response' = [status |-> status, error |-> error]
    /\ pc' = "done"
    /\ UNCHANGED <<stub, round_num, idx, personas, agents, reactions,
                   initial_reactions, discussion_messages, round_messages,
                   persona_sentiments, sentiment_intervals, final_summary,
                   calls, failures>>

\* the handler enters its first persona loop
Enter(h, body, st, resolved, phase, first_round) ==
    /\ handler' = h
    /\ req' = body
    /\ stub' = st
    /\ personas' = resolved
    /\ pc' = phase
    /\ round_num' = first_round
    /\ idx' = 1
    /\ UNCHANGED <<agents, reactions, initial_reactions, discussion_messages,
                   round_messages, persona_sentiments, sentiment_intervals,
                   final_summary, response, calls, failures>>

\* The persona loops: `for persona in personas: try: <call> except Exception:
\* <log, fall back>`.  The try sits inside the loop body, so the turn after
\* turn i is turn i + 1 whatever the call did.
LoopRetriesOnRaise(i, outcome) == IF outcome = "raise" THEN i ELSE i + 1
LoopBreaksOnRaise(i, outcome) == IF outcome = "raise" THEN MaxPersonas + 2 ELSE i + 1
LoopNext(i, outcome) == i + 1

\* the record of one Response Generator call
Call(phase, round, persona_id, prompt, tlen, outcome) ==
    [phase |-> phase, round |-> round, persona_id |-> persona_id,
     outcome |-> outcome,
     initial |-> prompt.message.initial, recent |-> prompt.message.recent,
     memory |-> prompt.memory, tlen |-> tlen]

\* the message of a prompt: the phase and round it asks about, the initial
\* reactions it quotes (the summary prompt only), the transcript lines it quotes
Message(phase, round, initial, recent) ==
    [phase |-> phase, round |-> round, initial |-> initial, recent |-> recent]

\* the prompt of a CrewAI task: the formatted task description, no memory part
TaskPrompt(message) == [memory |-> <<>>, message |-> message]

(***************************************************************************)
(* api/conversations.py: the handlers of the blueprint.                    *)
(***************************************************************************)
\* the validation every handler of the blueprint starts with
BpValidate(h, body, text_error, st, phase) ==
    LET text == Strip(GetText(body))
        persona_ids == GetPersonas(body)
        found == GetPersonasByIds(persona_ids)
    IN IF body.keys = {} THEN Reject(h, body, 400, "No data provided")
       ELSE IF text = <<>> THEN Reject(h, body, 400, text_error)
       ELSE IF persona_ids = <<>>
       THEN Reject(h, body, 400, "At least one persona is required")
       ELSE IF found = <<>> THEN Reject(h, body, 400, "No valid personas found")
       ELSE Enter(h, body, st, found, phase, 0)

\* simple_interaction, up to the persona loop
Bp_simple_interaction(body, st) ==
    /\ pc = "idle"
    /\ BpValidate("bp_simple", body, "Question is required", st, "simple")

\* simple_interaction: one turn of the persona loop
Bp_simple_reaction ==
    /\ handler = "bp_simple" /\ pc = "simple"
    /\ \E outcome \in Outcomes :
        LET p == personas[idx]
            message == Message("simple", 0, <<>>, <<>>)
            prompt == BuildPrompt(<<>>, message)
            content == Strip(stub)
            s == BiasSentiment(SentimentBiasOf(p), content)
            reaction ==
                IF outcome = "ok"
                THEN [persona_id |-> p, reaction |-> content,
                      sentiment |-> s.sentiment, sentiment_score |-> s.score]
                ELSE [persona_id |-> p, reaction |-> FallbackSimple,
                      sentiment |-> "neutral", sentiment_score |-> 0]
        IN /\ calls' = Append(calls, Call("simple", 0, p, prompt, 0, outcome))
           /\ failures' = Counted(outcome)
           /\ reactions' = Append(reactions, reaction)
           /\ IF LoopNext(idx, outcome) > Len(personas)
              THEN /\ response' = Ok200
                   /\ pc' = "done"
                   /\ idx' = idx
              ELSE /\ idx' = LoopNext(idx, outcome)
                   /\ UNCHANGED <<response, pc>>
    /\ UNCHANGED <<handler, req, stub, round_num, personas, agents,
                   initial_reactions, discussion_messages, round_messages,
                   persona_sentiments, sentiment_intervals, final_summary>>

\* group_discussion, up to the round loop
Bp_group_discussion(body, st) ==
    /\ pc = "idle"
    /\ BpValidate("bp_group", body, "Question is required", st, "round")

\* group_discussion: one turn of the persona loop of round round_num + 1
Bp_group_message ==
    /\ handler = "bp_group" /\ pc = "round"
    /\ \E outcome \in Outcomes :
        LET p == personas[idx]
            recent == LastN(discussion_messages, GroupWindow)
            message == Message("round", round_num + 1, <<>>, recent)
            prompt == BuildPrompt(agents[p], message)
            content == Strip(stub)
            s == BiasSentiment(SentimentBiasOf(p), content)
            msg ==
                IF outcome = "ok"
                THEN [persona_id |-> p, content |-> content,
                      sentiment |-> s.sentiment, sentiment_score |-> s.score,
                      round |-> round_num + 1]
                ELSE [persona_id |-> p, content |-> FallbackGroup,
                      sentiment |-> "neutral", sentiment_score |-> 0,
                      round |-> round_num + 1]
        IN /\ calls' = Append(calls, Call("round", round_num + 1, p, prompt,
                                          Len(discussion_messages), outcome))
           /\ failures' = Counted(outcome)
           /\ agents' = IF outcome = "ok"
                        THEN [agents EXCEPT ![p] = AddToMemory(@, message, content)]
                        ELSE agents
           /\ discussion_messages' = Append(discussion_messages, msg)
           /\ IF LoopNext(idx, outcome) <= Len(personas)
              THEN /\ idx' = LoopNext(idx, outcome)
                   /\ UNCHANGED <<round_num, response, pc>>
              ELSE IF round_num + 1 < GroupRounds
              THEN /\ idx' = 1
                   /\ round_num' = round_num + 1
                   /\ UNCHANGED <<response, pc>>
              ELSE /\ response' = Ok200
                   /\ pc' = "done"
                   /\ UNCHANGED <<idx, round_num>>
    /\ UNCHANGED <<handler, req, stub, personas, reactions, initial_reactions,
                   round_messages, persona_sentiments, sentiment_intervals,
                   final_summary>>

\* focus_group_simulation: the final summary figures
\* overall_sentiment = sum(all_sentiments) / len(all_sentiments) if all_sentiments else 0
OverallSentiment(all_sentiments) ==
    IF all_sentiments # <<>>
    THEN Div(SumSeq(all_sentiments), Len(all_sentiments))
    ELSE Num(0)

InitialSentimentUnguarded(initial) == Div(SumSeq(Scores(initial)), Len(initial))
\* initial_sentiment = sum(scores) / len(initial_reactions) if initial_reactions else 0
InitialSentiment(initial) ==
    IF initial # <<>> THEN Div(SumSeq(Scores(initial)), Len(initial)) ELSE Num(0)

\* final_sentiment = sentiment_intervals[-1]['overall_sentiment'] if sentiment_intervals else 0
FinalSentiment(intervals) ==
    IF intervals # <<>> THEN intervals[Len(intervals)].overall_sentiment ELSE Num(0)

\* sentiment_shift = final_sentiment - initial_sentiment
SentimentShift(initial, intervals) ==
    QSub(FinalSentiment(intervals), InitialSentiment(initial))

BpFinalSummary(initial, discussion, intervals) ==
    [kind |-> "metrics", text |-> <<>>,
     overall_sentiment |-> OverallSentiment(Scores(initial) \o Scores(discussion)),
     sentiment_shift |-> SentimentShift(initial, intervals)]

\* overall_sentiment of a round: sum(persona_sentiments.values()) / len(...) or 0
RoundOverallSentiment(sentiments) ==
    IF DOMAIN sentiments # {}
    THEN Div(SumValues(sentiments), Cardinality(DOMAIN sentiments))
    ELSE Num(0)

\* an exception that leaves the handler's outer try
Error500 == [status |-> 500, error |-> "Failed to generate focus group simulation"]

\* focus_group_simulation, up to the first persona loop
Bp_focus_group_simulation(body, st) ==
    /\ pc = "idle"
    /\ BpValidate("bp_focus", body, "Campaign description is required", st, "initial")

\* focus_group_simulation, phase 1: one turn of the persona loop
Bp_focus_initial_reaction ==
    /\ handler = "bp_focus" /\ pc = "initial"
    /\ \E outcome \in Outcomes :
        LET p == personas[idx]
            message == Message("initial", 0, <<>>, <<>>)
            prompt == BuildPrompt(agents[p], message)
            content == Strip(stub)
            s == BiasSentiment(SentimentBiasOf(p), content)
            reaction ==
                IF outcome = "ok"
                THEN [persona_id |-> p, reaction |-> content,
                      sentiment |-> s.sentiment, sentiment_score |-> s.score]
                ELSE [persona_id |-> p, reaction |-> FallbackInitial,
                      sentiment |-> "neutral", sentiment_score |-> 0]
        IN /\ calls' = Append(calls, Call("initial", 0, p, prompt, 0, outcome))
           /\ failures' = Counted(outcome)
           /\ agents' = IF outcome = "ok"
                        THEN [agents EXCEPT ![p] = AddToMemory(@, message, content)]
                        ELSE agents
           /\ initial_reactions' = Append(initial_reactions, reaction)
           /\ IF LoopNext(idx, outcome) <= Len(personas)
              THEN /\ idx' = LoopNext(idx, outcome)
                   /\ UNCHANGED <<pc, round_num>>
              ELSE /\ idx' = 1
                   /\ pc' = "round"
                   /\ round_num' = 0
    /\ UNCHANGED <<handler, req, stub, personas, reactions, discussion_messages,
                   round_messages, persona_sentiments, sentiment_intervals,
                   final_summary, response>>

\* focus_group_simulation, phase 2: one turn of the persona loop of round
\* round_num + 1; the last turn of a round also closes the round, and the last
\* turn of the last round builds the summary and the response
Bp_focus_round_message ==
    /\ handler = "bp_focus" /\ pc = "round"
    /\ \E outcome \in Outcomes :
        LET p == personas[idx]
            recent == LastN(discussion_messages, FocusWindow)
            message == Message("round", round_num + 1, <<>>, recent)
            prompt == BuildPrompt(agents[p], message)
            content == Strip(stub)
            s == BiasSentiment(SentimentBiasOf(p), content)
            msg ==
                IF outcome = "ok"
                THEN [persona_id |-> p, content |-> content,
                      sentiment |-> s.sentiment, sentiment_score |-> s.score,
                      round |-> round_num + 1]
                ELSE [persona_id |-> p, content |-> FallbackRound,
                      sentiment |-> "neutral", sentiment_score |-> 0,
                      round |-> round_num + 1]
            messages == Append(round_messages, msg)
            sentiments == DictSet(persona_sentiments, p, msg.sentiment_score)
            discussion == discussion_messages \o messages
            intervals ==
                Append(sentiment_intervals,
                       [round |-> round_num + 1,
                        overall_sentiment |-> RoundOverallSentiment(sentiments),
                        persona_sentiments |-> sentiments])
            summary == BpFinalSummary(initial_reactions, discussion, intervals)
            raised == \/ \E i \in DOMAIN intervals :
                            IsZeroDivisionError(intervals[i].overall_sentiment)
                      \/ IsZeroDivisionError(summary.overall_sentiment)
                      \/ IsZeroDivisionError(summary.sentiment_shift)
        IN /\ calls' = Append(calls, Call("round", round_num + 1, p, prompt,
                                          Len(discussion_messages), outcome))
           /\ failures' = Counted(outcome)
           /\ agents' = IF outcome = "ok"
                        THEN [agents EXCEPT ![p] = AddToMemory(@, message, content)]
                        ELSE agents
           /\ IF LoopNext(idx, outcome) <= Len(personas)
              THEN /\ idx' = LoopNext(idx, outcome)
                   /\ round_messages' = messages
                   /\ persona_sentiments' = sentiments
                   /\ UNCHANGED <<round_num, discussion_messages,
                                  sentiment_intervals, final_summary, response, pc>>
              ELSE /\ discussion_messages' = discussion
                   /\ sentiment_intervals' = intervals
                   /\ round_messages' = <<>>
                   /\ persona_sentiments' = EmptyDict
                   /\ IF round_num + 1 < FocusRounds
                      THEN /\ idx' = 1
                           /\ round_num' = round_num + 1
                           /\ UNCHANGED <<final_summary, response, pc>>
                      ELSE /\ pc' = "done"
                           /\ IF raised
                              THEN /\ response' = Error500
                                   /\ UNCHANGED final_summary
                              ELSE /\ response' = Ok200
                                   /\ final_summary' = summary
                           /\ UNCHANGED <<idx, round_num>>
    /\ UNCHANGED <<handler, req, stub, personas, reactions, initial_reactions>>

(***************************************************************************)
(* app.py and crew_manager.py: the routes of the Flask app and the         *)
(* CrewManager methods they call.                                          *)
(***************************************************************************)
\* the task types config/tasks.yaml configures: the ones the methods ask for
TaskTypes ==
    {"initial_reaction_task", "group_discussion_task",
     "focus_group_initial_task", "focus_group_discussion_task",
     "summary_synthesis_task"}

\* CrewManager.create_task: is there a task (None for a type not configured)
CreateTask(task_type) == task_type \in TaskTypes

\* one turn of a CrewManager loop: `if not task: continue` passes the turn
\* over without a call, otherwise crew.kickoff() returns or raises
TurnOutcomes(task_type) ==
    IF CreateTask(task_type) THEN Outcomes ELSE {"skip"}

\* the call log after a turn
Logged(outcome, call) == IF outcome = "skip" THEN calls ELSE Append(calls, call)

NoTaskSummary == <<"Unable to generate summary due to task creation error.">>

\* the validation of simple_interaction, group_discussion,
\* focus_group_simulation and focus_group_round:
\* if not question or not selected_personas: return 400
AppValidQuestionOnly(body) == GetText(body) # <<>>
AppValid(body) == GetText(body) # <<>> /\ GetPersonas(body) # <<>>

\* simple_interaction, up to the persona loop of run_simple_interaction
App_simple_interaction(body, st) ==
    /\ pc = "idle"
    /\ IF ~AppValid(body)
       THEN Reject("app_simple", body, 400, "Question and personas are required")
       ELSE IF ByAgentName(GetPersonas(body)) = <<>>
       THEN Reject("app_simple", body, 200, "")
       ELSE Enter("app_simple", body, st, ByAgentName(GetPersonas(body)),
                  "simple", 0)

\* CrewManager.run_simple_interaction: one turn of the persona loop (the
\* personas create_agent finds no agent for are passed over)
Run_simple_interaction ==
    /\ handler = "app_simple" /\ pc = "simple"
    /\ \E outcome \in TurnOutcomes("initial_reaction_task") :
        LET p == personas[idx]
            prompt == TaskPrompt(Message("simple", 0, <<>>, <<>>))
            response_text == stub
            s == AnalyzeSentiment(response_text)
            reaction ==
                IF outcome = "ok"
                THEN [persona_id |-> p, reaction |-> response_text,
                      sentiment |-> s.sentiment, sentiment_score |-> s.score]
                ELSE [persona_id |-> p, reaction |-> ExceptionText,
                      sentiment |-> "neutral", sentiment_score |-> 0]
        IN /\ calls' = Logged(outcome, Call("simple", 0, p, prompt, 0, outcome))
           /\ failures' = Counted(outcome)
           /\ reactions' = IF outcome = "skip" THEN reactions
                           ELSE Append(reactions, reaction)
           /\ IF LoopNext(idx, outcome) > Len(personas)
              THEN /\ response' = Ok200
                   /\ pc' = "done"
                   /\ idx' = idx
              ELSE /\ idx' = LoopNext(idx, outcome)
                   /\ UNCHANGED <<response, pc>>
    /\ UNCHANGED <<handler, req, stub, round_num, personas, agents,
                   initial_reactions, discussion_messages, round_messages,
                   persona_sentiments, sentiment_intervals, final_summary>>

\* the initial_reactions a /api/group-discussion body may carry: one reaction
\* of every persona it names
ReactionsOf(selected) ==
    [i \in DOMAIN selected |->
        [persona_id |-> selected[i], reaction |-> T_great,
         sentiment |-> "positive", sentiment_score |-> 1]]

\* group_discussion, up to the persona loop of run_group_discussion
App_group_discussion(body, st, with_reactions) ==
    LET full == IF with_reactions /\ AppValid(body)
                THEN [body EXCEPT !.initial_reactions = ReactionsOf(body.personas)]
                ELSE body
    IN /\ pc = "idle"
       /\ IF ~AppValid(body)
          THEN Reject("app_group", body, 400, "Question and personas are required")
          ELSE IF ByAgentName(GetPersonas(body)) = <<>>
          THEN Reject("app_group", full, 200, "")
          ELSE Enter("app_group", full, st, ByAgentName(GetPersonas(body)),
                     "round", 1)

\* CrewManager.run_group_discussion: one turn of the persona loop
Run_group_discussion ==
    /\ handler = "app_group" /\ pc = "round"
    /\ \E outcome \in TurnOutcomes("group_discussion_task") :
        LET p == personas[idx]
            other_reactions ==
                SelectSeq(req.initial_reactions, LAMBDA r : r.persona_id # p)
            prompt == TaskPrompt(Message("round", 1, other_reactions, <<>>))
            response_text == stub
            s == AnalyzeSentiment(response_text)
            msg == [persona_id |-> p, content |-> response_text,
                    sentiment |-> s.sentiment, sentiment_score |-> s.score,
                    round |-> 1]
        IN /\ calls' = Logged(outcome, Call("round", 1, p, prompt,
                                          Len(discussion_messages), outcome))
           /\ failures' = Counted(outcome)
           /\ discussion_messages' = IF outcome = "ok"
                                     THEN Append(discussion_messages, msg)
                                     ELSE discussion_messages
           /\ IF LoopNext(idx, outcome) > Len(personas)
              THEN /\ response' = Ok200
                   /\ pc' = "done"
                   /\ idx' = idx
              ELSE /\ idx' = LoopNext(idx, outcome)
                   /\ UNCHANGED <<response, pc>>
    /\ UNCHANGED <<handler, req, stub, round_num, personas, agents, reactions,
                   initial_reactions, round_messages, persona_sentiments,
                   sentiment_intervals, final_summary>>

\* the rounds after which run_focus_group_simulation takes a snapshot
IntervalRounds == {2, 3}

\* round_sentiment = sum(scores) / len(round_messages) if round_messages else 0
RoundSentimentUnguarded(messages) == Div(SumSeq(Scores(messages)), Len(messages))
RoundSentiment(messages) ==
    IF messages # <<>> THEN Div(SumSeq(Scores(messages)), Len(messages)) ELSE Num(0)

\* the snapshots of a simulation none of whose personas has an agent
IntervalsOfEmptyRounds ==
    [i \in 1..Cardinality(IntervalRounds) |->
        [round |-> i + (FocusRounds - Cardinality(IntervalRounds)),
         average_sentiment |-> Num(0)]]

\* focus_group_simulation, up to the first persona loop of
\* run_focus_group_simulation; with no agent at all every loop is empty
App_focus_group_simulation(body, st) ==
    /\ pc = "idle"
    /\ IF ~AppValid(body)
       THEN Reject("app_focus", body, 400,
                   "Campaign description and personas are required")
       ELSE IF ByPersonaId(GetPersonas(body)) = <<>>
       THEN /\ handler' = "app_focus"
            /\ req' = body
            /\ sentiment_intervals' = IntervalsOfEmptyRounds
            /\ final_summary' = [NoSummary EXCEPT !.kind = "text",
                                                  !.text = NoAgentsSummary]
            /\ response' = Ok200
            /\ pc' = "done"
            /\ UNCHANGED <<stub, round_num, idx, personas, agents, reactions,
                           initial_reactions, discussion_messages,
                           round_messages, persona_sentiments, calls, failures>>
       ELSE Enter("app_focus", body, st, ByPersonaId(GetPersonas(body)),
                  "initial", 0)

\* run_focus_group_simulation, phase 1: one turn of the persona loop
Run_focus_initial_reaction ==
    /\ handler = "app_focus" /\ pc = "initial"
    /\ \E outcome \in TurnOutcomes("focus_group_initial_task") :
        LET p == personas[idx]
            prompt == TaskPrompt(Message("initial", 0, <<>>, <<>>))
            response_text == stub
            s == AnalyzeSentiment(response_text)
            reaction == [persona_id |-> p, reaction |-> response_text,
                         sentiment |-> s.sentiment, sentiment_score |-> s.score]
        IN /\ calls' = Logged(outcome, Call("initial", 0, p, prompt, 0, outcome))
           /\ failures' = Counted(outcome)
           /\ initial_reactions' = IF outcome = "ok"
                                   THEN Append(initial_reactions, reaction)
                                   ELSE initial_reactions
           /\ IF LoopNext(idx, outcome) <= Len(personas)
              THEN /\ idx' = LoopNext(idx, outcome)
                   /\ UNCHANGED <<pc, round_num>>
              ELSE /\ idx' = 1
                   /\ pc' = "round"
                   /\ round_num' = 1
    /\ UNCHANGED <<handler, req, stub, personas, agents, reactions,
                   discussion_messages, round_messages, persona_sentiments,
                   sentiment_intervals, final_summary, response>>

\* an exception that leaves run_focus_group_simulation: the route's
\* `except Exception as e: return jsonify({"error": str(e)}), 500`
AppError500 == [status |-> 500, error |-> "division by zero"]

\* run_focus_group_simulation, phase 2: one turn of the persona loop of round
\* round_num; the last turn of a round also takes the snapshot, and a division
\* by zero there would leave the method
Run_focus_round_message ==
    /\ handler = "app_focus" /\ pc = "round"
    /\ \E outcome \in TurnOutcomes("focus_group_discussion_task") :
        LET p == personas[idx]
            recent_messages ==
                SelectSeq(LastN(discussion_messages, FocusWindow),
                          LAMBDA m : m.persona_id # p)
            prompt == TaskPrompt(Message("round", round_num, <<>>, recent_messages))
            response_text == stub
            s == AnalyzeSentiment(response_text)
            message == [persona_id |-> p, content |-> response_text,
                        sentiment |-> s.sentiment, sentiment_score |-> s.score,
                        round |-> round_num]
            messages == IF outcome = "ok" THEN Append(round_messages, message)
                        ELSE round_messages
        IN /\ calls' = Logged(outcome, Call("round", round_num, p, prompt,
                                          Len(discussion_messages), outcome))
           /\ failures' = Counted(outcome)
           /\ discussion_messages' = IF outcome = "ok"
                                     THEN Append(discussion_messages, message)
                                     ELSE discussion_messages
           /\ IF LoopNext(idx, outcome) <= Len(personas)
              THEN /\ idx' = LoopNext(idx, outcome)
                   /\ round_messages' = messages
                   /\ UNCHANGED <<round_num, sentiment_intervals, pc, response>>
              ELSE IF /\ round_num \in IntervalRounds
                      /\ IsZeroDivisionError(RoundSentiment(messages))
              THEN /\ response' = AppError500
                   /\ pc' = "done"
                   /\ round_messages' = messages
                   /\ UNCHANGED <<idx, round_num, sentiment_intervals>>
              ELSE /\ idx' = 1
                   /\ round_messages' = <<>>
                   /\ sentiment_intervals' =
                        IF round_num \in IntervalRounds
                        THEN Append(sentiment_intervals,
                                    [round |-> round_num,
                                     average_sentiment |-> RoundSentiment(messages)])
                        ELSE sentiment_intervals
                   /\ IF round_num < FocusRounds
                      THEN /\ round_num' = round_num + 1
                           /\ UNCHANGED pc
                      ELSE /\ pc' = "summary"
                           /\ UNCHANGED round_num
                   /\ UNCHANGED response
    /\ UNCHANGED <<handler, req, stub, personas, agents, reactions,
                   initial_reactions, persona_sentiments, final_summary>>

\* the summarizer: summary_agent = agents_data[0][1], the first agent created
SummaryAgentLast(agents_data) == agents_data[Len(agents_data)]
SummaryAgent(agents_data) == agents_data[1]

\* run_focus_group_simulation, phase 3: the summary call of the first agent,
\* then the result
Run_focus_summary ==
    /\ handler = "app_focus" /\ pc = "summary"
    /\ \E outcome \in TurnOutcomes("summary_synthesis_task") :
        LET summary_agent == SummaryAgent(personas)
            prompt == TaskPrompt(Message("summary", 0, initial_reactions,
                                         discussion_messages))
        IN /\ calls' = Logged(outcome, Call("summary", 0, summary_agent, prompt,
                                          Len(discussion_messages), outcome))
           /\ failures' = Counted(outcome)
           /\ final_summary' =
                [NoSummary EXCEPT !.kind = "text",
                                  !.text = IF outcome = "ok" THEN stub
                                           ELSE IF outcome = "raise"
                                           THEN FallbackSummary
                                           ELSE NoTaskSummary]
           /\ response' = Ok200
           /\ pc' = "done"
    /\ UNCHANGED <<handler, req, stub, round_num, idx, personas, agents,
                   reactions, initial_reactions, discussion_messages,
                   round_messages, persona_sentiments, sentiment_intervals>>

\* the previous_messages a /api/focus-group-round body may carry: n rounds of
\* one message of every persona it names
RECURSIVE PreviousRounds(_, _)
PreviousRounds(selected, n) ==
    IF n = 0 THEN <<>>
    ELSE PreviousRounds(selected, n - 1) \o
         [i \in DOMAIN selected |->
            [persona_id |-> selected[i], content |-> T_great,
             sentiment |-> "positive", sentiment_score |-> 2, round |-> n]]

\* focus_group_round, up to its persona loop
App_focus_group_round(body, st, n, round_number) ==
    LET full == IF AppValid(body)
                THEN [body EXCEPT !.round_number = round_number,
                                  !.previous_messages =
                                        PreviousRounds(body.personas, n)]
                ELSE body
    IN /\ pc = "idle"
       /\ IF ~AppValid(body)
          THEN Reject("app_round", body, 400,
                      "Campaign description and personas are required")
          ELSE IF ByAgentName(GetPersonas(body)) = <<>>
          THEN Reject("app_round", full, 200, "")
          ELSE Enter("app_round", full, st, ByAgentName(GetPersonas(body)),
                     "round", round_number)

\* focus_group_round: one turn of the persona loop
App_focus_round_message ==
    /\ handler = "app_round" /\ pc = "round"
    /\ \E outcome \in TurnOutcomes("focus_group_discussion_task") :
        LET p == personas[idx]
            recent_messages ==
                SelectSeq(LastN(req.previous_messages, FocusWindow),
                          LAMBDA m : m.persona_id # p)
            prompt == TaskPrompt(Message("round", req.round_number, <<>>,
                                         recent_messages))
            response_text == stub
            s == AnalyzeSentiment(response_text)
            message == [persona_id |-> p, content |-> Strip(response_text),
                        sentiment |-> s.sentiment, sentiment_score |-> s.score,
                        round |-> req.round_number]
        IN /\ calls' = Logged(outcome, Call("round", req.round_number, p, prompt,
                                          Len(req.previous_messages), outcome))
           /\ failures' = Counted(outcome)
           /\ round_messages' = IF outcome = "ok"
                                THEN Append(round_messages, message)
                                ELSE round_messages
           /\ IF LoopNext(idx, outcome) > Len(personas)
              THEN /\ response' = Ok200
                   /\ pc' = "done"
                   /\ idx' = idx
              ELSE /\ idx' = LoopNext(idx, outcome)
                   /\ UNCHANGED <<response, pc>>
    /\ UNCHANGED <<handler, req, stub, round_num, personas, agents, reactions,
                   initial_reactions, discussion_messages, persona_sentiments,
                   sentiment_intervals, final_summary>>

(***************************************************************************)
(* The specification.                                                      *)
(***************************************************************************)
\* the request bodies and Response Generator texts of the environment
Requests == {b \in Bodies : WellFormed(b)} \X Texts

Next ==
    \/ pc = "idle" /\ \E r \in Requests : Bp_simple_interaction(r[1], r[2])
    \/ Bp_simple_reaction
    \/ pc = "idle" /\ \E r \in Requests : Bp_group_discussion(r[1], r[2])
    \/ Bp_group_message
    \/ pc = "idle" /\ \E r \in Requests : Bp_focus_group_simulation(r[1], r[2])
    \/ Bp_focus_initial_reaction
    \/ Bp_focus_round_message
    \/ pc = "idle" /\ \E r \in Requests : App_simple_interaction(r[1], r[2])
    \/ Run_simple_interaction
    \/ pc = "idle" /\ \E r \in Requests, w \in BOOLEAN :
            App_group_discussion(r[1], r[2], w)
    \/ Run_group_discussion
    \/ pc = "idle" /\ \E r \in Requests : App_focus_group_simulation(r[1], r[2])
    \/ Run_focus_initial_reaction
    \/ Run_focus_round_message
    \/ Run_focus_summary
    \/ pc = "idle" /\ \E r \in Requests, n \in 0..MaxPrevRounds :
            \E round_number \in {0, n + 1} :
                App_focus_group_round(r[1], r[2], n, round_number)
    \/ App_focus_round_message

Spec == Init /\ [][Next]_vars

(***************************************************************************)
(* Properties of the focus-group simulation.                               *)
(***************************************************************************)
FocusHandlers == {"bp_focus", "app_focus"}

\* the personas of the request the handler resolves, from the request alone
ResolvedOf(h, body) ==
    IF h \in {"bp_simple", "bp_group", "bp_focus"}
    THEN SelectSeq(GetPersonas(body), LAMBDA id : GetPersona(id) # {})
    ELSE IF h = "app_focus"
    THEN SelectSeq(GetPersonas(body), LAMBDA id : CreateAgentResolves(id))
    ELSE SelectSeq(GetPersonas(body),
                   LAMBDA id : CreateAgentResolves(Replace(id, "-", "_")))

\* has the call of that phase, round and persona been issued, and has it raised
Issued(phase, r, p) ==
    \E k \in DOMAIN calls :
        calls[k].phase = phase /\ calls[k].round = r /\ calls[k].persona_id = p
Raised(phase, r, p) ==
    \E k \in DOMAIN calls :
        /\ calls[k].phase = phase /\ calls[k].round = r
        /\ calls[k].persona_id = p /\ calls[k].outcome = "raise"

\* C1: when a focus-group simulation of P resolved personas and R rounds has
\* been served, discussion_messages holds exactly P * R entries, the entry of
\* round r and of the i-th persona at place (r - 1) * P + i, and the entry of
\* every call that failed is the fallback: its text, "neutral", score 0.
C1_OneEntryPerPersonaAndRound ==
    (handler \in FocusHandlers /\ pc = "done" /\ response.status = 200) =>
        LET P == Len(personas)
        IN /\ Len(discussion_messages) = P * FocusRounds
           /\ \A r \in 1..FocusRounds, i \in 1..P :
                LET m == discussion_messages[(r - 1) * P + i]
                IN /\ m.round = r
                   /\ m.persona_id = personas[i]
                   /\ Raised("round", r, personas[i]) =>
                        /\ m.content = FallbackRound
                        /\ m.sentiment = "neutral"
                        /\ m.sentiment_score = 0

\* the calls of a phase, one per resolved persona, in order
PhaseCalls(resolved, phase, r) ==
    [i \in DOMAIN resolved |-> <<phase, r, resolved[i]>>]
RECURSIVE RoundCalls(_, _)
RoundCalls(resolved, n) ==
    IF n = 0 THEN <<>>
    ELSE RoundCalls(resolved, n - 1) \o PhaseCalls(resolved, "round", n)
\* the calls of a whole simulation of that request
ExpectedCalls(h, body) ==
    LET resolved == ResolvedOf(h, body)
    IN PhaseCalls(resolved, "initial", 0) \o RoundCalls(resolved, FocusRounds) \o
       (IF h = "app_focus" /\ resolved # <<>>
        THEN << <<"summary", 0, resolved[1]>> >> ELSE <<>>)

CallKeys == [k \in DOMAIN calls |-> <<calls[k].phase, calls[k].round,
                                      calls[k].persona_id>>]

\* C2: in a focus-group simulation the calls issued are, at every moment, the
\* first ones of the list the request alone fixes (every resolved persona once
\* per phase and round, in order), and a served simulation has issued the whole
\* list, whichever of the calls failed.
C2_FailureIsolation ==
    handler \in FocusHandlers =>
        LET expected == ExpectedCalls(handler, req)
        IN /\ Len(calls) <= Len(expected)
           /\ CallKeys = SubSeq(expected, 1, Len(calls))
           /\ (pc = "done" /\ response.status # 400) => Len(calls) = Len(expected)

\* a served simulation one of whose calls failed and was followed by another
\* call of the same phase and round
C2_Witness ==
    /\ handler \in FocusHandlers /\ pc = "done" /\ response.status = 200
    /\ \E k \in DOMAIN calls :
        /\ calls[k].outcome = "raise"
        /\ k + 1 \in DOMAIN calls
        /\ calls[k + 1].phase = calls[k].phase
        /\ calls[k + 1].round = calls[k].round

\* the place of a call in INITIAL -> ROUND(1) -> .. -> ROUND(R) -> SUMMARY
PhaseRank(c) ==
    IF c.phase = "initial" THEN 0
    ELSE IF c.phase = "round" THEN c.round
    ELSE FocusRounds + 1

\* the place the handler itself is at
CurrentRank ==
    IF pc = "initial" THEN 0
    ELSE IF pc = "round" THEN (IF handler = "bp_focus" THEN round_num + 1 ELSE round_num)
    ELSE FocusRounds + 1

\* C3: in a focus-group simulation the calls follow the phase order (every
\* initial-reaction call before any round-1 call, every call of round n before
\* any of round n + 1), no call is issued twice, no call belongs to a phase
\* later than the one the handler is in, and the summary exists only once
\* every resolved persona has had its call of every round.
C3_PhaseOrder ==
    handler \in FocusHandlers =>
        /\ \A i \in 1..(Len(calls) - 1) :
            PhaseRank(calls[i]) <= PhaseRank(calls[i + 1])
        /\ Cardinality({<<calls[i].phase, calls[i].round, calls[i].persona_id>> :
                            i \in DOMAIN calls}) = Len(calls)
        /\ \A i \in DOMAIN calls : PhaseRank(calls[i]) <= CurrentRank
        /\ final_summary.kind # "none" =>
            /\ pc = "done"
            /\ \A r \in 1..FocusRounds, i \in DOMAIN personas :
                Issued("initial", 0, personas[i]) /\ Issued("round", r, personas[i])

\* a summary produced after rounds in which calls failed
C3_Witness ==
    /\ handler = "app_focus" /\ pc = "done"
    /\ Len(personas) >= 2
    /\ failures = MaxFailures
    /\ Issued("summary", 0, personas[1])

(***************************************************************************)
(* Properties of the order of the entries and of the prompts.              *)
(***************************************************************************)
Ids(list) == [i \in DOMAIN list |-> list[i].persona_id]
OfRound(messages, r) == SelectSeq(messages, LAMBDA m : m.round = r)
Served == pc = "done" /\ response.status = 200

\* C4: whatever the handler, the entries of its reactions, of its initial
\* reactions and of each round follow the order of the request's persona list
\* restricted to the resolved personas, and the round numbers of the
\* transcript never decrease; where a failed call leaves a fallback entry
\* (both simple interactions, the blueprint's discussion and simulation) a
\* served request holds exactly that restricted list, per phase and round.
C4_RequestOrder ==
    handler # "none" =>
        LET order == ResolvedOf(handler, req)
            rounds == {discussion_messages[i].round : i \in DOMAIN discussion_messages}
        IN /\ IsSubSeq(order, GetPersonas(req))
           /\ IsSubSeq(Ids(reactions), order)
           /\ IsSubSeq(Ids(initial_reactions), order)
           /\ IsSubSeq(Ids(round_messages), order)
           /\ \A r \in rounds : IsSubSeq(Ids(OfRound(discussion_messages, r)), order)
           /\ \A i \in 1..(Len(discussion_messages) - 1) :
                discussion_messages[i].round <= discussion_messages[i + 1].round
           /\ (Served /\ handler \in {"bp_simple", "app_simple"}) =>
                Ids(reactions) = order
           /\ (Served /\ handler = "bp_group") =>
                \A r \in 1..GroupRounds : Ids(OfRound(discussion_messages, r)) = order
           /\ (Served /\ handler = "bp_focus") =>
                /\ Ids(initial_reactions) = order
                /\ \A r \in 1..FocusRounds :
                    Ids(OfRound(discussion_messages, r)) = order

\* a served simulation whose request lists its personas against the order of
\* the table and names one that does not resolve
C4_Witness ==
    /\ Served /\ handler = "bp_focus"
    /\ Descending(GetPersonas(req))
    /\ Len(personas) >= 2
    /\ Len(personas) < Len(GetPersonas(req))
    /\ Len(discussion_messages) = Len(personas) * FocusRounds

\* C5: the prompt of a discussion-round call never carries a message its own
\* persona produced earlier: none of the transcript lines it quotes is the
\* persona's, and its memory part (whose every entry is an earlier turn of that
\* persona's agent, with the response the persona gave) is empty.
C5_NoOwnMessageInPrompt ==
    \A k \in DOMAIN calls :
        calls[k].phase = "round" =>
            /\ \A i \in DOMAIN calls[k].recent :
                calls[k].recent[i].persona_id # calls[k].persona_id
            /\ calls[k].memory = <<>>

\* the transcript a handler slices, and the length of its slice
Transcript == IF handler = "app_round" THEN req.previous_messages
              ELSE discussion_messages
Window == IF handler = "bp_group" THEN GroupWindow ELSE FocusWindow

\* C6: the transcript lines a discussion-round prompt quotes are at most
\* Window many, all among the last Window messages of the transcript as it
\* was when the call was issued, in the transcript's order: all of them in
\* the blueprint, those of the other personas in the CrewManager flows.
C6_BoundedRecentContext ==
    handler \in {"bp_focus", "bp_group", "app_focus", "app_round"} =>
        \A k \in DOMAIN calls :
            calls[k].phase = "round" =>
                LET c == calls[k]
                    lo == IF c.tlen > Window THEN c.tlen - Window + 1 ELSE 1
                    last == SubSeq(Transcript, lo, c.tlen)
                IN /\ c.tlen <= Len(Transcript)
                   /\ Len(c.recent) <= Window
                   /\ IsSubSeq(c.recent, last)
                   /\ c.recent =
                        IF handler \in {"bp_focus", "bp_group"} THEN last
                        ELSE SelectSeq(last, LAMBDA m : m.persona_id # c.persona_id)

\* a prompt issued when the transcript was longer than the window
C6_Witness ==
    /\ handler \in {"bp_focus", "app_focus"}
    /\ \E k \in DOMAIN calls :
        /\ calls[k].phase = "round"
        /\ calls[k].tlen > FocusWindow
        /\ calls[k].recent # <<>>
        /\ calls[k].recent[1] = discussion_messages[calls[k].tlen - FocusWindow + 1]

(***************************************************************************)
(* Properties of validation and persona resolution.                        *)
(***************************************************************************)
AppHandlers == {"app_simple", "app_group", "app_focus"}

\* C7: a request to /api/simple-interaction, /api/group-discussion or
\* /api/focus-group of app.py whose question (campaign_description) or whose
\* personas list is missing or empty is answered 400 with 'Question and
\* personas are required' ('Campaign description and personas are required'
\* for the focus group), resolves no persona and issues no call; and these
\* routes answer 400 to no other request.
C7_RequiredFields ==
    handler \in AppHandlers =>
        LET missing == GetText(req) = <<>> \/ GetPersonas(req) = <<>>
            error == IF handler = "app_focus"
                     THEN "Campaign description and personas are required"
                     ELSE "Question and personas are required"
        IN /\ missing =>
                /\ pc = "done"
                /\ response = [status |-> 400, error |-> error]
                /\ personas = <<>>
                /\ calls = <<>>
           /\ response.status = 400 => missing

\* a focus-group request with a campaign description and no personas key
C7_Witness ==
    /\ handler = "app_focus"
    /\ GetText(req) # <<>>
    /\ "personas" \notin req.keys
    /\ response.status = 400

\* does the handler find the request's text and persona list present
HasRequiredFields ==
    /\ GetPersonas(req) # <<>>
    /\ IF handler \in {"bp_simple", "bp_group", "bp_focus"}
       THEN Strip(GetText(req)) # <<>>
       ELSE GetText(req) # <<>>

\* C8: of a request with its text and a non-empty persona list, the ids that
\* do not resolve are passed over: no call and no result entry is theirs, and
\* the request is answered with an error only if none of its ids resolves.
\* When some id resolves, a simple interaction (of either implementation) and
\* the blueprint's discussion and simulation succeed with result lists that
\* hold the resolved personas exactly, one entry each per phase and round.
C8_UnresolvedSkipped ==
    (handler # "none" /\ HasRequiredFields) =>
        LET resolved == ResolvedOf(handler, req)
            known == {resolved[i] : i \in DOMAIN resolved}
            lists == <<reactions, initial_reactions, discussion_messages, round_messages>>
        IN /\ personas = resolved
           /\ \A k \in DOMAIN calls : calls[k].persona_id \in known
           /\ \A l \in DOMAIN lists : \A i \in DOMAIN lists[l] :
                lists[l][i].persona_id \in known
           /\ response.status \notin {0, 200} => resolved = <<>>
           /\ (pc = "done" /\ resolved # <<>>) =>
                /\ response.status = 200
                /\ handler \in {"bp_simple", "app_simple"} => Ids(reactions) = resolved
                /\ handler = "bp_group" =>
                    Len(discussion_messages) = GroupRounds * Len(resolved)
                /\ handler = "bp_focus" =>
                    /\ Ids(initial_reactions) = resolved
                    /\ Len(discussion_messages) = FocusRounds * Len(resolved)

\* a served simple interaction that named more personas than resolved
C8_Witness ==
    /\ handler \in {"bp_simple", "app_simple"}
    /\ Served
    /\ reactions # <<>>
    /\ Len(reactions) < Len(GetPersonas(req))

(***************************************************************************)
(* Properties of the sentiment figures.                                    *)
(***************************************************************************)
\* the overall sentiment an interval snapshot carries
OverallOf(interval) ==
    IF "overall_sentiment" \in DOMAIN interval THEN interval.overall_sentiment
    ELSE interval.average_sentiment

\* C9: a served focus-group simulation carries exactly one interval snapshot
\* per round 1..FocusRounds, in ascending round order, whose overall sentiment
\* is the mean of the sentiment scores of that round's messages, and 0 when
\* the round has no message.
C9_IntervalPerRound ==
    (handler \in FocusHandlers /\ Served) =>
        /\ Len(sentiment_intervals) = FocusRounds
        /\ \A r \in 1..FocusRounds :
            LET of_round == Scores(OfRound(discussion_messages, r))
            IN /\ sentiment_intervals[r].round = r
               /\ QEq(OverallOf(sentiment_intervals[r]),
                      IF of_round = <<>> THEN Num(0)
                      ELSE Div(SumSeq(of_round), Len(of_round)))

(***************************************************************************)
(* The summary figures of focus_group_simulation as a computation of their *)
(* own: from any initial_reactions and sentiment_intervals lists to the    *)
(* final summary.                                                          *)
(***************************************************************************)
ShiftScores == {-1, 0, 1}
ShiftLevels == {Div(-1, 1), Div(-1, 2), Num(0), Div(1, 2), Div(1, 1)}
ScoreLists == UNION {[1..n -> ShiftScores] : n \in 0..MaxShiftReactions}
LevelLists == UNION {[1..n -> ShiftLevels] : n \in 0..MaxShiftRounds}

ReactionsScored(scores) ==
    [i \in DOMAIN scores |->
        [persona_id |-> Id_a, reaction |-> T_great,
         sentiment |-> IF scores[i] > 0 THEN "positive"
                       ELSE IF scores[i] < 0 THEN "negative" ELSE "neutral",
         sentiment_score |-> scores[i]]]

IntervalsAt(levels) ==
    [i \in DOMAIN levels |->
        [round |-> i, overall_sentiment |-> levels[i],
         persona_sentiments |-> EmptyDict]]

InitShift ==
    /\ handler = "bp_focus"
    /\ req = NoBody
    /\ stub = T_empty
    /\ pc = "summary"
    /\ round_num = 0
    /\ idx = 1
    /\ personas = <<>>
    /\ agents = [id \in IdPool |-> <<>>]
    /\ reactions = <<>>
    /\ \E scores \in ScoreLists : initial_reactions = ReactionsScored(scores)
    /\ discussion_messages = <<>>
    /\ round_messages = <<>>
    /\ persona_sentiments = EmptyDict
    /\ \E levels \in LevelLists : sentiment_intervals = IntervalsAt(levels)
    /\ final_summary = NoSummary
    /\ response = NoResponse
    /\ calls = <<>>
    /\ failures = 0

\* focus_group_simulation: the summary figures and the response
Bp_final_summary ==
    /\ handler = "bp_focus" /\ pc = "summary"
    /\ LET summary == BpFinalSummary(initial_reactions, discussion_messages,
                                     sentiment_intervals)
           raised == \/ IsZeroDivisionError(summary.overall_sentiment)
                     \/ IsZeroDivisionError(summary.sentiment_shift)
       IN IF raised
          THEN /\ response' = Error500
               /\ UNCHANGED final_summary
          ELSE /\ response' = Ok200
               /\ final_summary' = summary
    /\ pc' = "done"
    /\ UNCHANGED <<handler, req, stub, round_num, idx, personas, agents,
                   reactions, initial_reactions, discussion_messages,
                   round_messages, persona_sentiments, sentiment_intervals,
                   calls, failures>>

NextShift == Bp_final_summary

SpecShift == InitShift /\ [][NextShift]_vars

WordPool ==
    <<"great", "excellent", "amazing", "wonderful", "fantastic", "love",
      "terrible", "awful", "horrible", "hate", "disgusting", "worst",
      "Great", "hateful", "ok">>

\* the words of the pool at the chosen places, in the order of the pool
WordsAt(places) == SelectSeq(WordPool, LAMBDA w :
                       \E i \in places : WordPool[i] = w)

\* the response texts: up to MaxWords different words, said once or twice
ResponseTexts ==
    LET once == {WordsAt(places) : places \in
                    {ps \in SUBSET DOMAIN WordPool : Cardinality(ps) <= MaxWords}}
    IN once \cup {t \o t : t \in once}

InitSentiment ==
    /\ handler = "app_simple"
    /\ \E p \in {Id_cd, Id_e_f} :
        /\ req = [NoBody EXCEPT !.keys = {"text", "personas"},
                                !.text = <<"q">>, !.personas = <<p>>]
        /\ personas = <<p>>
    /\ stub \in ResponseTexts
    /\ pc = "simple"
    /\ round_num = 0
    /\ idx = 1
    /\ agents = [id \in IdPool |-> <<>>]
    /\ reactions = <<>>
    /\ initial_reactions = <<>>
    /\ discussion_messages = <<>>
    /\ round_messages = <<>>
    /\ persona_sentiments = EmptyDict
    /\ sentiment_intervals = <<>>
    /\ final_summary = NoSummary
    /\ response = NoResponse
    /\ calls = <<>>
    /\ failures = 0

NextSentiment == Run_simple_interaction

SpecSentiment == InitSentiment /\ [][NextSentiment]_vars

\* C11: the reaction of a call that returned carries the label and score of
\* the keyword-count policy for the returned text: with p the number of
\* positive and n the number of negative keywords the text holds, "positive"
\* and min(5, p - n) if p > n, "negative" and max(-5, -(n - p)) if n > p,
\* "neutral" and 0 if p = n, zero-zero included; nothing of the persona, its
\* sentiment_bias included, enters the result.
C11_KeywordCountPolicy ==
    \A i \in DOMAIN reactions :
        calls[i].outcome = "ok" =>
            LET holds(k) == \E j \in DOMAIN stub :
                                k \in KeywordsWithin(Lower(stub[j]))
                p == Cardinality({k \in positive_words : holds(k)})
                n == Cardinality({k \in negative_words : holds(k)})
                r == reactions[i]
            IN /\ r.sentiment = "positive" <=> p > n
               /\ r.sentiment = "negative" <=> n > p
               /\ r.sentiment = "neutral" <=> p = n
               /\ p > n => r.sentiment_score = (IF p - n < 5 THEN p - n ELSE 5)
               /\ n > p => r.sentiment_score = (IF n - p < 5 THEN -(n - p) ELSE -5)
               /\ p = n => r.sentiment_score = 0

\* a returned text with six positive keywords and no negative one: the clamp
C11_Witness ==
    /\ reactions # <<>>
    /\ calls[1].outcome = "ok"
    /\ Cardinality(positive_words \cap {stub[j] : j \in DOMAIN stub}) > 5
    /\ negative_words \cap KeywordsIn(stub) = {}
    /\ reactions[1].sentiment_score = 5

(***************************************************************************)
(* Properties of the bias-driven policy and of the summary phase.          *)
(***************************************************************************)
BpHandlers == {"bp_simple", "bp_group", "bp_focus"}

\* the label and score the sentiment_bias alone gives
BiasAlone(sentiment_bias) ==
    IF sentiment_bias > 20 THEN <<"positive", 1>>
    ELSE IF sentiment_bias < -20 THEN <<"negative", -1>>
    ELSE <<"neutral", 0>>

\* C12: in the handlers of api/conversations.py, the entry of every call that
\* returned, whatever content it returned, the empty one included, carries
\* the label and score its persona's sentiment_bias alone gives: positive and
\* 1 above 0.2, negative and -1 below -0.2, neutral and 0 otherwise.
C12_BiasAlone ==
    handler \in BpHandlers =>
        LET by_bias(e, phase, r) ==
                Raised(phase, r, e.persona_id) \/
                <<e.sentiment, e.sentiment_score>> =
                    BiasAlone(SentimentBiasOf(e.persona_id))
        IN /\ \A i \in DOMAIN reactions : by_bias(reactions[i], "simple", 0)
           /\ \A i \in DOMAIN initial_reactions :
                by_bias(initial_reactions[i], "initial", 0)
           /\ \A i \in DOMAIN discussion_messages :
                by_bias(discussion_messages[i], "round", discussion_messages[i].round)
           /\ \A i \in DOMAIN round_messages :
                by_bias(round_messages[i], "round", round_messages[i].round)


\* the summary calls of the request, in the order they were made
SummaryCalls == SelectSeq(calls, LAMBDA c : c.phase = "summary")

\* C13: in the summary phase of CrewManager.run_focus_group_simulation exactly
\* one call is made (in a session of at least one agent: with none there is no
\* summarizer), by the first of the selected personas that has an agent,
\* quoting every initial reaction and every discussion message; when it raises
\* the summary is the literal "Summary generation encountered an error.", the
\* request still answers 200, and the two lists of the result are the ones the
\* call was given.  Before the summary phase no such call is made.
C13_SummaryPhase ==
    handler = "app_focus" /\ ResolvedOf("app_focus", req) # <<>> =>
        IF pc = "done" /\ final_summary.kind = "text"
        THEN /\ Len(SummaryCalls) = 1
             /\ SummaryCalls[1].persona_id = Head(ResolvedOf("app_focus", req))
             /\ SummaryCalls[1].initial = initial_reactions
             /\ SummaryCalls[1].recent = discussion_messages
             /\ SummaryCalls[1] = calls[Len(calls)]
             /\ response = Ok200
             /\ SummaryCalls[1].outcome = "raise" =>
                    final_summary.text = FallbackSummary
             /\ SummaryCalls[1].outcome = "ok" => final_summary.text = stub
        ELSE SummaryCalls = <<>>

\* a simulation of several personas whose summary call raised, after every
\* earlier call returned
C13_Witness ==
    /\ handler = "app_focus" /\ pc = "done"
    /\ Len(personas) >= 2
    /\ SummaryCalls # <<>> /\ SummaryCalls[1].outcome = "raise"
    /\ Len(initial_reactions) = Len(personas)
    /\ Len(discussion_messages) = FocusRounds * Len(personas)
    /\ final_summary.text = FallbackSummary


\* C14: every discussion-round message an endpoint returns carries a round
\* number of at least 1, the number of the round whose call produced it; round 0
\* is left to the initial reactions.  This covers /api/focus-group-round, whose
\* round number is the caller's.
C14_DiscussionRoundsFromOne ==
    LET numbered(m) ==
            /\ m.round >= 1
            /\ \E k \in DOMAIN calls :
                    /\ calls[k].phase = "round" /\ calls[k].round = m.round
                    /\ calls[k].persona_id = m.persona_id
    IN /\ \A i \in DOMAIN discussion_messages : numbered(discussion_messages[i])
       /\ \A i \in DOMAIN round_messages : numbered(round_messages[i])


(***************************************************************************)
(* Termination of a focus-group request.                                   *)
(***************************************************************************)
\* one turn of a focus-group handler: the call it makes and what follows it
FocusStep ==
    \/ Bp_focus_initial_reaction
    \/ Bp_focus_round_message
    \/ Run_focus_initial_reaction
    \/ Run_focus_round_message
    \/ Run_focus_summary

\* ids with a row only, with a row and a file (one of them spelled with an
\* underscore), and with neither
LiveIds == {Id_a, Id_cd, Id_e_f, Id_x}

\* the focus-group requests of up to MaxLivePersonas of these personas, with one text
\* for the calls that return: what a call returns has no part in the control
\* flow, whether it returns has
LiveRequests ==
    {r \in Requests :
        /\ Len(r[1].personas) <= MaxLivePersonas
        /\ \A i \in DOMAIN r[1].personas : r[1].personas[i] \in LiveIds
        /\ r[2] = T_great}

NextLive ==
    \/ pc = "idle" /\ \E r \in LiveRequests : Bp_focus_group_simulation(r[1], r[2])
    \/ pc = "idle" /\ \E r \in LiveRequests : App_focus_group_simulation(r[1], r[2])
    \/ FocusStep

\* Every Response Generator call returns or raises, and a handler's code runs
\* on: a turn that can be taken is taken.
SpecLive == Init /\ [][NextLive]_vars /\ WF_vars(FocusStep)

\* the focus-group request is past validation with at least one persona
FocusRunning ==
    /\ handler \in FocusHandlers
    /\ pc \in {"initial", "round", "summary"}
    /\ personas # <<>>

\* the request has answered 200 with its summary
FocusSucceeded ==
    /\ handler \in FocusHandlers
    /\ pc = "done"
    /\ response = Ok200
    /\ final_summary.kind # "none"

\* C15: a focus-group request that is past validation with at least one
\* persona resolved ends, whatever calls fail on the way, and ends with the
\* success body, never with an error response.
C15_FocusGroupCompletes == FocusRunning ~> FocusSucceeded

\* a finished focus-group request one of whose calls raised
C15_Witness ==
    /\ FocusSucceeded
    /\ personas # <<>>
    /\ failures > 0
    /\ \E k \in DOMAIN calls : calls[k].outcome = "raise" /\ calls[k].phase = "round"


(***************************************************************************)
(* One PersonaAgent over several process_message calls.                    *)
(***************************************************************************)
\* the messages the agent is asked to respond to (no context is passed: the
\* handlers call process_message(message) alone)
AgentMessages == {<<"q">>, <<"r">>}

\* PersonaAgent.__init__: the context the agent is created with
AgentContext ==
    [k \in {"persona_traits", "sentiment_bias", "engagement_level",
            "controversy_tolerance"} |-> 0]

\* the memory after process_message: add_to_memory is reached only when
\* llm.invoke and _process_response have returned
MemoryAfterAnyCall(conversation_history, message, content, outcome) ==
    AddToMemory(conversation_history, message, content)
MemoryAfter(conversation_history, message, content, outcome) ==
    IF outcome = "ok" THEN AddToMemory(conversation_history, message, content)
    ELSE conversation_history

\* the agent of persona "a", just created, and the text its LLM returns; its
\* context is kept in persona_sentiments
InitMemory ==
    /\ handler = "agent"
    /\ req = NoBody
    /\ stub \in Texts
    /\ pc = "agent"
    /\ round_num = 0
    /\ idx = 1
    /\ personas = <<Id_a>>
    /\ agents = [id \in IdPool |-> <<>>]
    /\ reactions = <<>>
    /\ initial_reactions = <<>>
    /\ discussion_messages = <<>>
    /\ round_messages = <<>>
    /\ persona_sentiments = AgentContext
    /\ sentiment_intervals = <<>>
    /\ final_summary = NoSummary
    /\ response = NoResponse
    /\ calls = <<>>
    /\ failures = 0

\* PersonaAgent.process_message: the prompt is built, the LLM is invoked, and
\* the pair is added to the memory unless the invocation raised
Process_message ==
    /\ handler = "agent" /\ pc = "agent"
    /\ Len(calls) < MaxTurns
    /\ \E message \in AgentMessages, outcome \in Outcomes :
        LET p == personas[1]
            conversation_history == agents[p]
            prompt == BuildPrompt(conversation_history, message)
            content == Strip(stub)
        IN /\ calls' = Append(calls, [persona_id |-> p, message |-> message,
                                      conversation_history |-> conversation_history,
                                      prompt |-> prompt, outcome |-> outcome,
                                      error |-> IF outcome = "raise"
                                                THEN "PersonaError" ELSE ""])
           /\ agents' = [agents EXCEPT
                            ![p] = MemoryAfter(@, message, content, outcome)]
           /\ failures' = Counted(outcome)
    /\ UNCHANGED <<handler, req, stub, pc, round_num, idx, personas, reactions,
                   initial_reactions, discussion_messages, round_messages,
                   persona_sentiments, sentiment_intervals, final_summary,
                   response>>

NextMemory == Process_message

SpecMemory == InitMemory /\ [][NextMemory]_vars

RoundHandlers == {"bp_group", "bp_focus", "app_focus"}

\* C17: the transcript lines quoted in the prompt of a call of round n were all
\* produced before round n: none is a message of round n itself.
C17_ContextFromEarlierRounds ==
    handler \in RoundHandlers =>
        \A k \in DOMAIN calls :
            calls[k].phase = "round" =>
                \A i \in DOMAIN calls[k].recent :
                    calls[k].recent[i].round < calls[k].round


\* the request/response pairs of the calls before call k that returned, oldest
\* first: what the agent has been through when it builds the prompt of call k
TurnsBefore(k) ==
    LET returned == SelectSeq(SubSeq(calls, 1, k - 1),
                              LAMBDA c : c.outcome = "ok")
    IN [i \in DOMAIN returned |->
            [message |-> returned[i].message, response |-> Strip(stub)]]

\* C18: the history part of a prompt holds the last MemoryLimit (5) or fewer
\* request/response pairs of the agent's own earlier turns, oldest first, and is
\* absent when the agent has none.
C18_LastFiveTurns ==
    handler = "agent" =>
        \A k \in DOMAIN calls :
            LET memory == calls[k].prompt.memory
                turns == TurnsBefore(k)
                dropped == Len(turns) - Len(memory)
            IN /\ Len(memory) = Min(Len(turns), MemoryLimit)
               /\ \A i \in DOMAIN memory : memory[i] = turns[dropped + i]

\* a prompt built over more than five turns, the oldest of which differs from
\* the oldest it quotes, after a prompt without history and a call that raised
C18_Witness ==
    /\ handler = "agent"
    /\ calls # <<>> /\ calls[1].prompt.memory = <<>>
    /\ \E k \in DOMAIN calls :
            /\ Len(TurnsBefore(k)) > MemoryLimit
            /\ Len(calls[k].prompt.memory) = MemoryLimit
            /\ TurnsBefore(k)[1] # calls[k].prompt.memory[1]
            /\ calls[k].prompt.memory[1] # calls[k].prompt.memory[2]
    /\ \E k \in DOMAIN calls : calls[k].outcome = "raise"


(***************************************************************************)
(* PersonaAgent._format_personality_traits.                                *)
(***************************************************************************)
\* the thresholds of the descriptors, in hundredths
VeryAbove == 70
ModeratelyAbove == 40
NotVeryBelow == 30

\* trait values, in hundredths, on and around the thresholds, and a value that
\* is no number
TraitValues ==
    {[numeric |-> TRUE, value |-> v] :
        v \in {0, 29, 30, 31, 35, 39, 40, 41, 69, 70, 71, 100}}
    \cup {[numeric |-> FALSE, value |-> 0]}

TraitNames == {"curious", "open", "patient"}

\* personality_traits: the items of the dict in its order, every trait once
TraitDicts ==
    {d \in UNION {[1..n -> TraitNames \X TraitValues] : n \in 0..MaxTraits} :
        Cardinality({d[i][1] : i \in DOMAIN d}) = Len(d)}

\* what one item adds to traits: at most one descriptor
TraitDescriptorInclusive(trait, value) ==
    IF value.numeric
    THEN IF value.value >= VeryAbove THEN <<[kind |-> "very", trait |-> trait]>>
         ELSE IF value.value >= ModeratelyAbove
         THEN <<[kind |-> "moderately", trait |-> trait]>>
         ELSE IF value.value <= NotVeryBelow
         THEN <<[kind |-> "not very", trait |-> trait]>>
         ELSE <<>>
    ELSE <<[kind |-> "verbatim", trait |-> trait]>>
TraitDescriptor(trait, value) ==
    IF value.numeric
    THEN IF value.value > VeryAbove THEN <<[kind |-> "very", trait |-> trait]>>
         ELSE IF value.value > ModeratelyAbove
         THEN <<[kind |-> "moderately", trait |-> trait]>>
         ELSE IF value.value < NotVeryBelow
         THEN <<[kind |-> "not very", trait |-> trait]>>
         ELSE <<>>
    ELSE <<[kind |-> "verbatim", trait |-> trait]>>

\* the descriptors of the items, in the order of the dict (joined by ", ")
RECURSIVE FormatPersonalityTraits(_)
FormatPersonalityTraits(personality_traits) ==
    IF personality_traits = <<>> THEN <<>>
    ELSE TraitDescriptor(Head(personality_traits)[1], Head(personality_traits)[2])
         \o FormatPersonalityTraits(Tail(personality_traits))

\* a persona with its personality_traits
InitTraits ==
    /\ handler = "traits"
    /\ req \in {[personality_traits |-> d] : d \in TraitDicts}
    /\ stub = T_empty
    /\ pc = "traits"
    /\ round_num = 0
    /\ idx = 1
    /\ personas = <<>>
    /\ agents = [id \in IdPool |-> <<>>]
    /\ reactions = <<>>
    /\ initial_reactions = <<>>
    /\ discussion_messages = <<>>
    /\ round_messages = <<>>
    /\ persona_sentiments = EmptyDict
    /\ sentiment_intervals = <<>>
    /\ final_summary = NoSummary
    /\ response = NoResponse
    /\ calls = <<>>
    /\ failures = 0

\* _format_personality_traits is called, and its text kept
Format_personality_traits ==
    /\ handler = "traits" /\ pc = "traits"
    /\ final_summary' =
            [NoSummary EXCEPT !.kind = "text",
                              !.text = FormatPersonalityTraits(req.personality_traits)]
    /\ pc' = "done"
    /\ UNCHANGED <<handler, req, stub, round_num, idx, personas, agents,
                   reactions, initial_reactions, discussion_messages,
                   round_messages, persona_sentiments, sentiment_intervals,
                   response, calls, failures>>

NextTraits == Format_personality_traits

SpecTraits == InitTraits /\ [][NextTraits]_vars

\* is the descriptor of that kind for that trait part of the text
Emits(kind, trait) ==
    \E i \in DOMAIN final_summary.text :
        final_summary.text[i] = [kind |-> kind, trait |-> trait]

\* C19: for a trait of numeric value v the text says "very" iff v > 0.7,
\* "moderately" iff 0.4 < v <= 0.7, "not very" iff v < 0.3, and says nothing of
\* the trait for 0.3 <= v <= 0.4.
C19_TraitDescriptors ==
    handler = "traits" /\ pc = "done" =>
        \A i \in DOMAIN req.personality_traits :
            LET trait == req.personality_traits[i][1]
                value == req.personality_traits[i][2]
                v == value.value
            IN value.numeric =>
                /\ Emits("very", trait) <=> v > 70
                /\ Emits("moderately", trait) <=> (40 < v /\ v <= 70)
                /\ Emits("not very", trait) <=> v < 30
                /\ (30 <= v /\ v <= 40) =>
                        \A j \in DOMAIN final_summary.text :
                            final_summary.text[j].trait # trait

\* traits of value 0.3 and 0.4 formatted to an empty text
C19_Witness ==
    /\ handler = "traits" /\ pc = "done"
    /\ \E i, j \in DOMAIN req.personality_traits :
            /\ req.personality_traits[i][2] = [numeric |-> TRUE, value |-> 30]
            /\ req.personality_traits[j][2] = [numeric |-> TRUE, value |-> 40]
    /\ final_summary.text = <<>>


(***************************************************************************)
(* core/container.py: the dependency container.                            *)
(***************************************************************************)
ServiceNames == {"db", "redis"}
\* the instances a caller registers, the factories and the service classes
Instances == {"v1", "v2"}
Factories == {"factory"}
ServiceClasses == {"Service"}

\* an instance handed in, and the instance a factory or a class makes
Given(instance) == [kind |-> "given", of |-> instance]
Made(maker) == [kind |-> "made", of |-> maker]

\* Container.__init__ and Container.clear: three empty dicts
EmptyContainer ==
    [singletons |-> EmptyDict, factories |-> EmptyDict, services |-> EmptyDict]

RegisterSingleton(container, name, instance) ==
    [container EXCEPT !.singletons = DictSet(@, name, instance)]
RegisterFactory(container, name, factory) ==
    [container EXCEPT !.factories = DictSet(@, name, factory)]
RegisterService(container, name, service_class) ==
    [container EXCEPT !.services = DictSet(@, name, service_class)]

ValueError == [raised |-> TRUE, value |-> Given("ValueError")]
Returned(instance) == [raised |-> FALSE, value |-> instance]

\* Container.get: singletons first, then factories, then services
GetFactoriesFirst(container, name) ==
    IF name \in DOMAIN container.factories
    THEN Returned(Made(container.factories[name]))
    ELSE IF name \in DOMAIN container.singletons
    THEN Returned(container.singletons[name])
    ELSE IF name \in DOMAIN container.services
    THEN Returned(Made(container.services[name]))
    ELSE ValueError
Get(container, name) ==
    IF name \in DOMAIN container.singletons
    THEN Returned(container.singletons[name])
    ELSE IF name \in DOMAIN container.factories
    THEN Returned(Made(container.factories[name]))
    ELSE IF name \in DOMAIN container.services
    THEN Returned(Made(container.services[name]))
    ELSE ValueError

\* the result of the last call, none after a call that returns nothing
NoResult == [op |-> "none", name |-> "", raised |-> FALSE, value |-> Given("None")]
Result(op, name, result) ==
    [op |-> op, name |-> name, raised |-> result.raised, value |-> result.value]

\* what has been registered since the container was made or cleared: the
\* instance of the last register_singleton of each name, and the names any
\* register_ method was given
NothingRegistered == [singleton |-> EmptyDict, names |-> {}]

\* A new Container.  Its three dicts are kept in persona_sentiments, the log of
\* registrations in calls, the result of the last call in response.
InitContainer ==
    /\ handler = "container"
    /\ req = NoBody
    /\ stub = T_empty
    /\ pc = "container"
    /\ round_num = 0
    /\ idx = 1
    /\ personas = <<>>
    /\ agents = [id \in IdPool |-> <<>>]
    /\ reactions = <<>>
    /\ initial_reactions = <<>>
    /\ discussion_messages = <<>>
    /\ round_messages = <<>>
    /\ persona_sentiments = EmptyContainer
    /\ sentiment_intervals = <<>>
    /\ final_summary = NoSummary
    /\ response = NoResult
    /\ calls = NothingRegistered
    /\ failures = 0

ContainerRest ==
    <<handler, req, stub, pc, round_num, idx, personas, agents, reactions,
      initial_reactions, discussion_messages, round_messages,
      sentiment_intervals, final_summary, failures>>

Register_singleton ==
    /\ handler = "container"
    /\ \E name \in ServiceNames, instance \in Instances :
        /\ persona_sentiments' =
                RegisterSingleton(persona_sentiments, name, Given(instance))
        /\ calls' = [singleton |-> DictSet(calls.singleton, name, Given(instance)),
                     names |-> calls.names \cup {name}]
    /\ response' = NoResult
    /\ UNCHANGED ContainerRest

Register_factory ==
    /\ handler = "container"
    /\ \E name \in ServiceNames, factory \in Factories :
        /\ persona_sentiments' = RegisterFactory(persona_sentiments, name, factory)
        /\ calls' = [calls EXCEPT !.names = @ \cup {name}]
    /\ response' = NoResult
    /\ UNCHANGED ContainerRest

Register_service ==
    /\ handler = "container"
    /\ \E name \in ServiceNames, service_class \in ServiceClasses :
        /\ persona_sentiments' =
                RegisterService(persona_sentiments, name, service_class)
        /\ calls' = [calls EXCEPT !.names = @ \cup {name}]
    /\ response' = NoResult
    /\ UNCHANGED ContainerRest

Container_get ==
    /\ handler = "container"
    /\ \E name \in ServiceNames :
        response' = Result("get", name, Get(persona_sentiments, name))
    /\ UNCHANGED <<persona_sentiments, calls>>
    /\ UNCHANGED ContainerRest

\* Container.get_singleton: the singleton of that name, or what get makes, kept
\* as the singleton from then on
Container_get_singleton ==
    /\ handler = "container"
    /\ \E name \in ServiceNames :
        LET result == Get(persona_sentiments, name)
        IN /\ response' = Result("get_singleton", name, result)
           /\ persona_sentiments' =
                IF name \notin DOMAIN persona_sentiments.singletons /\ ~result.raised
                THEN RegisterSingleton(persona_sentiments, name, result.value)
                ELSE persona_sentiments
    /\ UNCHANGED calls
    /\ UNCHANGED ContainerRest

Container_clear ==
    /\ handler = "container"
    /\ persona_sentiments' = EmptyContainer
    /\ calls' = NothingRegistered
    /\ response' = NoResult
    /\ UNCHANGED ContainerRest

NextContainer ==
    \/ Register_singleton
    \/ Register_factory
    \/ Register_service
    \/ Container_get
    \/ Container_get_singleton
    \/ Container_clear

SpecContainer == InitContainer /\ [][NextContainer]_vars

\* C20: get(name) returns the instance of the last register_singleton(name, v)
\* made since the container was new or cleared, whatever factory or service
\* class the name also has; for a name no register_ method was given since
\* then it raises ValueError.
C20_SingletonWins ==
    handler = "container" /\ response.op = "get" =>
        /\ response.name \in DOMAIN calls.singleton =>
                /\ ~response.raised
                /\ response.value = calls.singleton[response.name]
        /\ response.name \notin calls.names => response.raised
        /\ response.raised => response.value = ValueError.value

\* get returned the second instance registered for a name that also has a
\* factory and a service class, after get_singleton was called for the name
C20_Witness ==
    /\ handler = "container" /\ response.op = "get"
    /\ response.name \in DOMAIN persona_sentiments.factories
    /\ response.name \in DOMAIN persona_sentiments.services
    /\ response.name \in DOMAIN calls.singleton
    /\ response.value = Given("v2")
    /\ \E other \in ServiceNames \ {response.name} :
            /\ other \in DOMAIN persona_sentiments.singletons
            /\ persona_sentiments.singletons[other] = Made("factory")


(***************************************************************************)
(* BaseAgent.add_to_memory and reset_memory on two agents.                 *)
(***************************************************************************)
HistoryAgents == {Id_a, Id_cd}

\* the message of the n-th interaction added since the last reset
Interaction(n) == <<n>>

\* two agents just created; calls counts the interactions added to each since
\* its last reset
InitHistory ==
    /\ handler = "memory"
    /\ req = NoBody
    /\ stub = T_great
    /\ pc = "memory"
    /\ round_num = 0
    /\ idx = 1
    /\ personas = <<>>
    /\ agents = [id \in IdPool |-> <<>>]
    /\ reactions = <<>>
    /\ initial_reactions = <<>>
    /\ discussion_messages = <<>>
    /\ round_messages = <<>>
    /\ persona_sentiments = EmptyDict
    /\ sentiment_intervals = <<>>
    /\ final_summary = NoSummary
    /\ response = NoResponse
    /\ calls = [id \in HistoryAgents |-> 0]
    /\ failures = 0

HistoryRest ==
    <<handler, req, stub, pc, round_num, idx, personas, reactions,
      initial_reactions, discussion_messages, round_messages,
      persona_sentiments, sentiment_intervals, final_summary, response,
      failures>>

Add_to_memory ==
    /\ handler = "memory"
    /\ \E p \in HistoryAgents :
        /\ calls[p] < MaxAdds
        /\ agents' = [agents EXCEPT
                        ![p] = AddToMemory(@, Interaction(calls[p] + 1), stub)]
        /\ calls' = [calls EXCEPT ![p] = @ + 1]
    /\ UNCHANGED HistoryRest

\* BaseAgent.reset_memory: conversation_history.clear()
Reset_memory ==
    /\ handler = "memory"
    /\ \E p \in HistoryAgents :
        /\ agents' = [agents EXCEPT ![p] = <<>>]
        /\ calls' = [calls EXCEPT ![p] = 0]
    /\ UNCHANGED HistoryRest

NextHistory == Add_to_memory \/ Reset_memory

SpecHistory == InitHistory /\ [][NextHistory]_vars

\* C21: conversation_history never holds more than 50 entries, and holds the
\* last min(n, 50) of the n interactions added since the last reset, oldest
\* first.
C21_LastFiftyInteractions ==
    handler = "memory" =>
        \A p \in HistoryAgents :
            LET n == calls[p]
                kept == IF n < 50 THEN n ELSE 50
            IN /\ Len(agents[p]) = kept
               /\ \A i \in 1..kept :
                    agents[p][i] = [message |-> Interaction(n - kept + i),
                                    response |-> stub]

\* an agent that was given more than fifty interactions, next to one that was
\* reset and given one
C21_Witness ==
    /\ handler = "memory"
    /\ calls[Id_a] > MemoryCap + 1
    /\ Len(agents[Id_a]) = MemoryCap
    /\ agents[Id_a][1].message = Interaction(calls[Id_a] - MemoryCap + 1)
    /\ calls[Id_cd] = 1


\* the agent's memory when call k has ended
HistoryAfter(k) ==
    IF k < Len(calls) THEN calls[k + 1].conversation_history
    ELSE agents[personas[1]]

\* C22: a process_message call whose LLM call failed ends with PersonaError and
\* leaves the agent's conversation_history and context as they were; a call that succeeded adds
\* one entry, its own message and response, and nothing else changes.
C22_FailedCallLeavesMemory ==
    handler = "agent" =>
        /\ persona_sentiments = AgentContext
        /\ \A k \in DOMAIN calls :
            LET before == calls[k].conversation_history
                after == HistoryAfter(k)
            IN IF calls[k].outcome = "raise"
               THEN after = before /\ calls[k].error = "PersonaError"
               ELSE /\ Len(after) = Len(before) + 1
                    /\ SubSeq(after, 1, Len(before)) = before
                    /\ after[Len(after)] = [message |-> calls[k].message,
                                            response |-> Strip(stub)]

\* a call failed on an agent that had a memory, and a later call succeeded
C22_Witness ==
    /\ handler = "agent"
    /\ \E k \in DOMAIN calls :
            /\ calls[k].outcome = "raise"
            /\ calls[k].conversation_history # <<>>
            /\ k < Len(calls)
            /\ calls[k + 1].outcome = "ok"
            /\ Len(agents[personas[1]]) > Len(calls[k].conversation_history)


(***************************************************************************)
(* The persona files: save_persona and delete_persona of app.py, and the   *)
(* catalog and agent cache of the CrewManager.                             *)
(***************************************************************************)
Digits == <<"0", "1", "2", "3", "4">>
FilenameChars == {"a", "c", "d", "e", "f", "x", " ", "-", "_"} \cup
                 {Digits[i] : i \in DOMAIN Digits}

\* str.rstrip()
RECURSIVE RStrip(_)
RStrip(s) ==
    IF s = <<>> THEN <<>>
    ELSE IF s[Len(s)] = " " THEN RStrip(SubSeq(s, 1, Len(s) - 1))
    ELSE s

\* the file name save_persona writes: the name without the characters that are
\* neither alphanumeric nor ' ', '-', '_', right-stripped, blanks replaced,
\* then int(time.time()) and the extension
SaveFilename(persona_name, timestamp) ==
    LET safe_name == RStrip(SelectSeq(persona_name,
                                      LAMBDA c : c \in FilenameChars))
    IN Replace(safe_name, " ", "_") \o <<"_", Digits[timestamp + 1], ".json">>

\* the names of the personas posted to /save-persona
SaveNames == {<<"c", " ", "d">>, <<"c", "!", "_", "d">>}

\* the personas directory before any save: one of the persona files
FilesAtStart == {Id_cd \o <<".json">>}

\* _load_personas_from_json: the keys, filename.replace('.json', '') of every
\* file that ends with .json
LoadPersonasFromJson(files) ==
    {SelectSeq(filename, LAMBDA c : c # ".json") :
        filename \in {f \in files : f[Len(f)] = ".json"}}

\* create_agent: the key of the catalog the id is looked up under, if any
LookupId(personas_from_json, persona_id) ==
    IF persona_id \in personas_from_json THEN <<persona_id>>
    ELSE IF Replace(persona_id, "_", "-") \in personas_from_json
    THEN <<Replace(persona_id, "_", "-")>>
    ELSE IF Replace(persona_id, "-", "_") \in personas_from_json
    THEN <<Replace(persona_id, "-", "_")>>
    ELSE <<>>

\* if persona_id in self._agent_cache
CacheNeverHit(agent_cache, persona_id) == FALSE
CacheHit(agent_cache, persona_id) == persona_id \in DOMAIN agent_cache

\* if not hasattr(self, '_personas_from_json')
AlwaysLoad(manager) == TRUE
NeedsLoad(manager) == ~manager.loaded

\* the ids create_agent is asked for: a file of the start under both
\* spellings, a file a save can write, and an id of no file
CatalogIds == {Id_cd, Id_c_d, <<"c", "_", "d", "_", "0">>, Id_x}

\* what the calls so far have shown: the agent each id first got, the catalog
\* of the first load (none yet: <<>>), the saves that succeeded
NothingSeen == [first |-> EmptyDict, first_load |-> <<>>, saves |-> <<>>]

\* A new CrewManager and the directory as it is found.  The directory is kept
\* in persona_sentiments, the manager's catalog in req, its _agent_cache in
\* agents, the number of the next Agent object in idx, the clock in round_num.
InitCatalog ==
    /\ handler = "catalog"
    /\ req = [loaded |-> FALSE, personas_from_json |-> {}]
    /\ stub = T_empty
    /\ pc = "catalog"
    /\ round_num = 0
    /\ idx = 1
    /\ personas = <<>>
    /\ agents = EmptyDict
    /\ reactions = <<>>
    /\ initial_reactions = <<>>
    /\ discussion_messages = <<>>
    /\ round_messages = <<>>
    /\ persona_sentiments = FilesAtStart
    /\ sentiment_intervals = <<>>
    /\ final_summary = NoSummary
    /\ response = [op |-> "none"]
    /\ calls = NothingSeen
    /\ failures = 0

CatalogRest ==
    <<handler, stub, pc, personas, reactions, initial_reactions,
      discussion_messages, round_messages, sentiment_intervals, final_summary,
      failures>>

\* time passes
Tick ==
    /\ handler = "catalog"
    /\ round_num < MaxClock
    /\ round_num' = round_num + 1
    /\ UNCHANGED <<req, idx, agents, persona_sentiments, response, calls>>
    /\ UNCHANGED CatalogRest

\* POST /save-persona
Save_persona ==
    /\ handler = "catalog"
    /\ Len(calls.saves) < MaxSaves
    /\ \E persona_name \in SaveNames :
        LET filename == SaveFilename(persona_name, round_num)
        IN /\ persona_sentiments' = persona_sentiments \cup {filename}
           /\ calls' = [calls EXCEPT
                          !.saves = Append(@, [name |-> persona_name,
                                               filename |-> filename])]
           /\ response' = [op |-> "save_persona", status |-> 200,
                           filename |-> filename]
    /\ UNCHANGED <<req, round_num, idx, agents>>
    /\ UNCHANGED CatalogRest

\* DELETE /api/delete-persona/<filename>
Delete_persona ==
    /\ handler = "catalog"
    /\ \E filename \in FilesAtStart \cup
                        {SaveFilename(n, t) : n \in SaveNames, t \in 0..MaxClock} :
        IF filename \in persona_sentiments
        THEN /\ persona_sentiments' = persona_sentiments \ {filename}
             /\ response' = [op |-> "delete_persona", status |-> 200,
                             filename |-> filename]
        ELSE /\ response' = [op |-> "delete_persona", status |-> 404,
                             filename |-> filename]
             /\ UNCHANGED persona_sentiments
    /\ UNCHANGED <<req, round_num, idx, agents, calls>>
    /\ UNCHANGED CatalogRest

\* CrewManager.create_agent
Create_agent ==
    /\ handler = "catalog"
    /\ \E persona_id \in CatalogIds :
        IF CacheHit(agents, persona_id)
        THEN /\ response' = [op |-> "create_agent", persona_id |-> persona_id,
                             agent |-> <<agents[persona_id]>>]
             /\ UNCHANGED <<req, idx, agents, calls>>
        ELSE LET personas_from_json ==
                     IF NeedsLoad(req) THEN LoadPersonasFromJson(persona_sentiments)
                     ELSE req.personas_from_json
                 lookup_id == LookupId(personas_from_json, persona_id)
                 agent == [config |-> lookup_id, object |-> idx]
                 seen == [calls EXCEPT
                            !.first_load = IF @ = <<>> THEN <<personas_from_json>>
                                           ELSE @]
             IN /\ req' = [loaded |-> TRUE,
                           personas_from_json |-> personas_from_json]
                /\ IF lookup_id = <<>>
                   THEN /\ response' = [op |-> "create_agent",
                                        persona_id |-> persona_id, agent |-> <<>>]
                        /\ calls' = seen
                        /\ UNCHANGED <<idx, agents>>
                   ELSE /\ response' = [op |-> "create_agent",
                                        persona_id |-> persona_id,
                                        agent |-> <<agent>>]
                        /\ agents' = DictSet(agents, persona_id, agent)
                        /\ idx' = idx + 1
                        /\ calls' = [seen EXCEPT
                                       !.first = IF persona_id \in DOMAIN @ THEN @
                                                 ELSE DictSet(@, persona_id, agent)]
    /\ UNCHANGED <<round_num, persona_sentiments>>
    /\ UNCHANGED CatalogRest

NextCatalog == Tick \/ Save_persona \/ Delete_persona \/ Create_agent

SpecCatalog == InitCatalog /\ [][NextCatalog]_vars

\* C23: create_agent returns, for an id that resolves, the Agent object the
\* first resolving call for that id returned, and for an id that does not
\* resolve None, without an entry in the cache; the cache holds exactly the
\* agents first returned, none evicted, none replaced.
C23_AgentCache ==
    handler = "catalog" =>
        /\ DOMAIN agents = DOMAIN calls.first
        /\ \A id \in DOMAIN calls.first : agents[id] = calls.first[id]
        /\ response.op = "create_agent" =>
                IF response.agent = <<>>
                THEN response.persona_id \notin DOMAIN agents
                ELSE response.agent[1] = calls.first[response.persona_id]

\* a second call for an id returned its agent, after calls for other ids made
\* other agents and a call for an id of no file returned None
C23_Witness ==
    /\ handler = "catalog"
    /\ response.op = "create_agent"
    /\ response.agent # <<>>
    /\ response.agent[1].object = 1
    /\ idx > 2
    /\ Id_x \notin DOMAIN agents
    /\ req.loaded


\* C24: the catalog is the one of the first load, whatever is saved or deleted
\* afterwards, and create_agent resolves exactly the ids it resolves in that
\* catalog.
C24_CatalogLoadedOnce ==
    handler = "catalog" =>
        /\ req.loaded <=> calls.first_load # <<>>
        /\ req.loaded => req.personas_from_json = calls.first_load[1]
        /\ response.op = "create_agent" =>
                /\ req.loaded
                /\ response.agent # <<>> <=>
                        LookupId(calls.first_load[1], response.persona_id) # <<>>

\* after the first load a persona was saved and the file of the start deleted:
\* the saved one does not resolve
C24_Witness ==
    /\ handler = "catalog"
    /\ response.op = "create_agent"
    /\ response.agent = <<>>
    /\ (response.persona_id \o <<".json">>) \in persona_sentiments
    /\ (Id_cd \o <<".json">>) \notin persona_sentiments
    /\ Id_cd \in req.personas_from_json

\* C25: the file names of the saves that succeeded are all different.
C25_SaveNeverOverwrites ==
    handler = "catalog" =>
        \A i \in DOMAIN calls.saves :
            i > 1 => \A j \in 1..(i - 1) :
                calls.saves[j].filename # calls.saves[i].filename

(***************************************************************************)
(* The persona service and the /api/personas routes.  The Persona table is *)
(* kept in persona_sentiments (id -> row), the clock in round_num, the     *)
(* last call and its outcome in response, and for each id the row as it    *)
(* was before its last deactivation in calls.                              *)
(***************************************************************************)
StoredIds == {Id_a, Id_cd}
RequestIds == StoredIds \cup {Id_x}

\* the rows at start: one default persona and one custom persona
TableAtStart ==
    [id \in StoredIds |->
        [name |-> <<"n">>, is_default |-> (id = Id_a), is_active |-> TRUE,
         updated_at |-> 0]]

\* request bodies / update_data: an optional name
UpdateBodies ==
    {[keys |-> {}, name |-> <<>>]} \cup
    {[keys |-> {"name"}, name |-> n] : n \in {<<"n">>, <<"m">>, <<" ">>}}

\* PersonaUpdateSchema.load: a given name must not be blank
SchemaAccepts(data) ==
    "name" \in data.keys =>
        \E i \in DOMAIN data.name : data.name[i] # " "

\* Persona.get_by_id
GetById(table, persona_id) ==
    IF persona_id \in DOMAIN table THEN {table[persona_id]} ELSE {}

ServiceGetPersonaAnyState(table, persona_id) == GetById(table, persona_id)

\* PersonaService.get_persona: None unless the row exists and is active
ServiceGetPersona(table, persona_id) ==
    {r \in GetById(table, persona_id) : r.is_active}

\* PersonaService.get_personas_by_ids
ServiceGetPersonasByIds(table, persona_ids) ==
    SelectSeq(persona_ids, LAMBDA id : ServiceGetPersona(table, id) # {})

\* BaseModel.save: an UPDATE is issued for a changed row, and stamps it
Saved(table, persona_id, row, now) ==
    IF row = table[persona_id] THEN table
    ELSE [table EXCEPT ![persona_id] = [row EXCEPT !.updated_at = now]]

Outcome(table, raised, returned) ==
    [table |-> table, raised |-> raised, returned |-> returned]

\* PersonaService.update_persona
ServiceUpdatePersona(table, persona_id, update_data, now) ==
    LET persona == ServiceGetPersona(table, persona_id) IN
    IF persona = {} THEN Outcome(table, "Persona not found", "")
    ELSE LET row == CHOOSE r \in persona : TRUE IN
         IF row.is_default
         THEN Outcome(table, "Cannot update default personas", "")
         ELSE Outcome(Saved(table, persona_id,
                            IF "name" \in update_data.keys
                            THEN [row EXCEPT !.name = update_data.name]
                            ELSE row, now),
                      "", "persona")

\* PersonaService.delete_persona
ServiceDeletePersona(table, persona_id, now) ==
    LET persona == ServiceGetPersona(table, persona_id) IN
    IF persona = {} THEN Outcome(table, "Persona not found", "")
    ELSE LET row == CHOOSE r \in persona : TRUE IN
         IF row.is_default
         THEN Outcome(table, "Cannot delete default personas", "")
         ELSE Outcome(Saved(table, persona_id,
                            [row EXCEPT !.is_active = FALSE], now),
                      "", "True")

\* PersonaService.activate_persona
ServiceActivatePersona(table, persona_id, now) ==
    LET persona == GetById(table, persona_id) IN
    IF persona = {} THEN Outcome(table, "", "None")
    ELSE LET row == CHOOSE r \in persona : TRUE IN
         Outcome(Saved(table, persona_id,
                       [row EXCEPT !.is_active = TRUE], now),
                 "", "persona")

ServiceDeactivatePersonaUnguarded(table, persona_id, now) ==
    LET persona == GetById(table, persona_id) IN
    IF persona = {} THEN Outcome(table, "", "None")
    ELSE LET row == CHOOSE r \in persona : TRUE IN
         Outcome(Saved(table, persona_id,
                       [row EXCEPT !.is_active = FALSE], now),
                 "", "persona")

\* PersonaService.deactivate_persona
ServiceDeactivatePersona(table, persona_id, now) ==
    LET persona == GetById(table, persona_id) IN
    IF persona = {} THEN Outcome(table, "", "None")
    ELSE LET row == CHOOSE r \in persona : TRUE IN
         IF row.is_default
         THEN Outcome(table, "Cannot deactivate default personas", "")
         ELSE Outcome(Saved(table, persona_id,
                            [row EXCEPT !.is_active = FALSE], now),
                      "", "persona")

\* the status and error of a route's JSON answer: PersonaError is answered
\* with 400, a false result of the service with 404
RouteAnswer(outcome) ==
    IF outcome.raised # ""
    THEN [status |-> 400, error |-> "Persona error"]
    ELSE IF outcome.returned \in {"", "None", "False"}
    THEN [status |-> 404, error |-> "Persona not found"]
    ELSE [status |-> 200, error |-> ""]

ValidationAnswer == [status |-> 400, error |-> "Validation error"]
NoAnswer == [status |-> 0, error |-> ""]

\* the row of an id before it was last taken out of service
Snapshots(table, after, before) ==
    [id \in RequestIds |->
        IF /\ id \in DOMAIN table
           /\ table[id].is_active /\ ~after[id].is_active
        THEN {table[id]} ELSE before[id]]

InitPersonas ==
    /\ handler = "personas"
    /\ persona_sentiments = TableAtStart
    /\ round_num = 0
    /\ response = [op |-> "none", id |-> <<>>, raised |-> "", returned |-> "",
                   answer |-> NoAnswer, was_active |-> FALSE]
    /\ calls = [id \in RequestIds |-> {}]
    /\ req = <<>>
    /\ stub = <<>>
    /\ pc = "done"
    /\ idx = 0
    /\ personas = <<>>
    /\ agents = <<>>
    /\ reactions = <<>>
    /\ initial_reactions = <<>>
    /\ discussion_messages = <<>>
    /\ round_messages = <<>>
    /\ sentiment_intervals = <<>>
    /\ final_summary = <<>>
    /\ failures = 0

PersonasRest ==
    <<handler, req, stub, pc, idx, personas, agents, reactions,
      initial_reactions, discussion_messages, round_messages,
      sentiment_intervals, final_summary, failures>>

\* one call of the service or of a route: op names it, outcome is what the
\* service did at time now, answer what the route sent
Called(op, persona_id, outcome, answer, now) ==
    /\ persona_sentiments' = outcome.table
    /\ round_num' = now
    /\ response' = [op |-> op, id |-> persona_id, raised |-> outcome.raised,
                    returned |-> outcome.returned, answer |-> answer,
                    was_active |->
                        ServiceGetPersona(persona_sentiments, persona_id) # {}]
    /\ calls' = Snapshots(persona_sentiments, outcome.table, calls)
    /\ UNCHANGED PersonasRest

Call_get_persona ==
    /\ handler = "personas"
    /\ \E persona_id \in RequestIds :
        Called("get_persona", persona_id,
               Outcome(persona_sentiments, "",
                       IF ServiceGetPersona(persona_sentiments, persona_id) = {}
                       THEN "None" ELSE "persona"),
               NoAnswer, round_num)

Call_update_persona ==
    /\ handler = "personas"
    /\ \E persona_id \in RequestIds, update_data \in UpdateBodies,
          now \in round_num..MaxClock :
        Called("update_persona", persona_id,
               ServiceUpdatePersona(persona_sentiments, persona_id,
                                    update_data, now),
               NoAnswer, now)

Call_delete_persona ==
    /\ handler = "personas"
    /\ \E persona_id \in RequestIds, now \in round_num..MaxClock :
        Called("delete_persona", persona_id,
               ServiceDeletePersona(persona_sentiments, persona_id, now),
               NoAnswer, now)

Call_activate_persona ==
    /\ handler = "personas"
    /\ \E persona_id \in RequestIds, now \in round_num..MaxClock :
        Called("activate_persona", persona_id,
               ServiceActivatePersona(persona_sentiments, persona_id, now),
               NoAnswer, now)

Call_deactivate_persona ==
    /\ handler = "personas"
    /\ \E persona_id \in RequestIds, now \in round_num..MaxClock :
        Called("deactivate_persona", persona_id,
               ServiceDeactivatePersona(persona_sentiments, persona_id, now),
               NoAnswer, now)

\* PUT /api/personas/<persona_id>
Put_persona ==
    /\ handler = "personas"
    /\ \E persona_id \in RequestIds, data \in UpdateBodies,
          now \in round_num..MaxClock :
        IF ~SchemaAccepts(data)
        THEN Called("PUT", persona_id,
                    Outcome(persona_sentiments, "", ""), ValidationAnswer, now)
        ELSE LET outcome == ServiceUpdatePersona(persona_sentiments,
                                                 persona_id, data, now)
             IN Called("PUT", persona_id, outcome, RouteAnswer(outcome), now)

\* DELETE /api/personas/<persona_id>
Delete_persona_route ==
    /\ handler = "personas"
    /\ \E persona_id \in RequestIds, now \in round_num..MaxClock :
        LET outcome == ServiceDeletePersona(persona_sentiments, persona_id, now)
        IN Called("DELETE", persona_id, outcome, RouteAnswer(outcome), now)

NextPersonas ==
    \/ Call_get_persona
    \/ Call_update_persona
    \/ Call_delete_persona
    \/ Call_activate_persona
    \/ Call_deactivate_persona
    \/ Put_persona
    \/ Delete_persona_route

SpecPersonas == InitPersonas /\ [][NextPersonas]_vars

\* C26: no sequence of update_persona, delete_persona and deactivate_persona
\* calls changes a default persona: every such call on a persona with
\* is_default = True raises PersonaError, and every field of the row,
\* is_active = True included, stays as it was.
C26_DefaultPersonaUntouched ==
    handler = "personas" =>
        /\ \A id \in DOMAIN persona_sentiments :
            TableAtStart[id].is_default =>
                /\ persona_sentiments[id] = TableAtStart[id]
                /\ persona_sentiments[id].is_active
        /\ ( ( /\ response.op \in {"update_persona", "delete_persona",
                                   "deactivate_persona"}
               /\ response.id \in StoredIds
               /\ TableAtStart[response.id].is_default )
             => response.raised \in {"Cannot update default personas",
                                     "Cannot delete default personas",
                                     "Cannot deactivate default personas"} )

C26_Witness ==
    /\ handler = "personas"
    /\ response.op = "deactivate_persona"
    /\ response.id = Id_a
    /\ response.raised = "Cannot deactivate default personas"
    /\ round_num = MaxClock
    /\ ~persona_sentiments[Id_cd].is_active

IdLists == {<<Id_cd>>, <<Id_a, Id_cd>>, <<Id_x, Id_cd, Id_a>>}

\* a deleted or deactivated persona: unresolvable and not updatable, its
\* record kept
HiddenWhileInactive(id) ==
    /\ id \in DOMAIN persona_sentiments
    /\ calls[id] # {}
    /\ ServiceGetPersona(persona_sentiments, id) = {}
    /\ \A persona_ids \in IdLists :
        LET found == ServiceGetPersonasByIds(persona_sentiments, persona_ids)
        IN \A i \in DOMAIN found : found[i] # id
    /\ \A update_data \in UpdateBodies, now \in 0..MaxClock :
        LET outcome == ServiceUpdatePersona(persona_sentiments, id,
                                            update_data, now)
        IN outcome.raised # "" /\ outcome.table = persona_sentiments
    /\ \A before \in calls[id] :
        persona_sentiments[id].name = before.name
        /\ persona_sentiments[id].is_default = before.is_default

\* activate_persona has just brought id back
JustReactivated(id) ==
    /\ response.op = "activate_persona"
    /\ response.id = id
    /\ ~response.was_active
    /\ calls[id] # {}

\* C27 as stated: after delete_persona or deactivate_persona on an active
\* non-default persona get_persona returns None, get_personas_by_ids omits
\* it, update_persona is rejected and the record is kept; a following
\* activate_persona makes it resolvable again with every other field as
\* before the deletion.
C27_RestoredWithEveryField ==
    handler = "personas" =>
        \A id \in StoredIds :
            ~persona_sentiments[id].is_default =>
                /\ (~persona_sentiments[id].is_active => HiddenWhileInactive(id))
                /\ JustReactivated(id) =>
                    /\ ServiceGetPersona(persona_sentiments, id) # {}
                    /\ \A before \in calls[id] :
                        persona_sentiments[id] = before

\* C27 amended: the same, except that updated_at is the time of the last
\* change of the row and not the time it had before the deletion.
C27_RestoredButStamp ==
    handler = "personas" =>
        \A id \in StoredIds :
            ~persona_sentiments[id].is_default =>
                /\ (~persona_sentiments[id].is_active => HiddenWhileInactive(id))
                /\ JustReactivated(id) =>
                    /\ ServiceGetPersona(persona_sentiments, id) # {}
                    /\ \A before \in calls[id] :
                        /\ persona_sentiments[id] =
                            [before EXCEPT
                                !.updated_at = persona_sentiments[id].updated_at]
                        /\ persona_sentiments[id].updated_at >= before.updated_at

C27_Witness ==
    /\ handler = "personas"
    /\ JustReactivated(Id_cd)
    /\ persona_sentiments[Id_cd].is_active
    /\ persona_sentiments[Id_cd].name = <<"m">>
    /\ persona_sentiments[Id_cd].updated_at = MaxClock

\* C28: PUT and DELETE /api/personas/<id> for an id that names no active
\* persona answer with HTTP 404 and the error 'Persona not found'.
C28_NotFoundIs404 ==
    handler = "personas" =>
        ( ( /\ response.op \in {"PUT", "DELETE"}
            /\ ~response.was_active
            /\ response.answer # ValidationAnswer )
          => response.answer = [status |-> 404, error |-> "Persona not found"] )

(***************************************************************************)
(* The FocusGroup model.  The focus_groups rows are kept in                *)
(* persona_sentiments (id -> row), the focus_group_rounds rows of each     *)
(* group in agents (id -> rows in insertion order), the last call in       *)
(* response, and in calls whether a group has been driven by one           *)
(* start_discussion followed by next_round calls only.  A commit that      *)
(* fails is rolled back, so the tables keep their rows.                    *)
(***************************************************************************)
GroupIds == {"g1", "g2"}

InitialQuestion == [text |-> "q", round |-> 0]

\* the prompt argument of next_round: None, '' or a text
Prompts == {"None", "", "p"}

\* prompt or f"Round {self.current_round} discussion"
PromptOr(prompt, current_round) ==
    IF prompt \in {"None", ""}
    THEN [text |-> "Round {} discussion", round |-> current_round]
    ELSE [text |-> prompt, round |-> 0]

NoUniqueConstraint(rounds, round) == FALSE

\* _focus_group_round_uc: a second row of the group with that round_number
UniqueViolation(rounds, round) ==
    \E i \in DOMAIN rounds : rounds[i].round_number = round.round_number

Committed(group, rounds, returned) ==
    [group |-> group, rounds |-> rounds, raised |-> "", returned |-> returned]

RolledBack(group, rounds) ==
    [group |-> group, rounds |-> rounds, raised |-> "IntegrityError",
     returned |-> ""]

\* FocusGroup.start_discussion
StartDiscussion(group, rounds) ==
    LET first_round == [round_number |-> 1, prompt |-> InitialQuestion,
                        status |-> "active"]
    IN IF UniqueViolation(rounds, first_round)
       THEN RolledBack(group, rounds)
       ELSE Committed([group EXCEPT !.status = "active", !.current_round = 1],
                      Append(rounds, first_round), "round")

\* self.rounds.filter_by(round_number=n).first(): the index of the row
First(rounds, n) ==
    LET found == {i \in DOMAIN rounds : rounds[i].round_number = n}
    IN IF found = {} THEN 0
       ELSE CHOOSE i \in found : \A j \in found : i <= j

\* FocusGroup.next_round
NextRound(group, rounds, prompt) ==
    IF group.current_round >= group.max_rounds
    THEN Committed([group EXCEPT !.status = "completed"], rounds, "None")
    ELSE LET current == First(rounds, group.current_round)
             completed == IF current = 0 THEN rounds
                          ELSE [rounds EXCEPT ![current].status = "completed"]
             next_round == [round_number |-> group.current_round + 1,
                            prompt |-> PromptOr(prompt, group.current_round + 1),
                            status |-> "active"]
         IN IF UniqueViolation(rounds, next_round)
            THEN RolledBack(group, rounds)
            ELSE Committed([group EXCEPT !.current_round = @ + 1],
                           Append(completed, next_round), "round")

\* FocusGroupRound.complete_round
CompleteRound(rounds, i) == [rounds EXCEPT ![i].status = "completed"]

InitFocusGroups ==
    /\ handler = "focus_group_model"
    /\ \E max_rounds \in [GroupIds -> 0..MaxGroupRounds] :
        persona_sentiments =
            [g \in GroupIds |-> [max_rounds |-> max_rounds[g],
                                 current_round |-> 0, status |-> "created"]]
    /\ agents = [g \in GroupIds |-> <<>>]
    /\ response = [op |-> "none", group |-> "", raised |-> "", returned |-> ""]
    /\ calls = [g \in GroupIds |-> "created"]
    /\ req = <<>>
    /\ stub = <<>>
    /\ pc = "done"
    /\ round_num = 0
    /\ idx = 0
    /\ personas = <<>>
    /\ reactions = <<>>
    /\ initial_reactions = <<>>
    /\ discussion_messages = <<>>
    /\ round_messages = <<>>
    /\ sentiment_intervals = <<>>
    /\ final_summary = <<>>
    /\ failures = 0

FocusGroupsRest ==
    <<handler, req, stub, pc, round_num, idx, personas, reactions,
      initial_reactions, discussion_messages, round_messages,
      sentiment_intervals, final_summary, failures>>

\* how the group has been driven so far, after one more call
Driven(before, op) ==
    IF before = "created" /\ op = "start_discussion" THEN "started"
    ELSE IF before = "started" /\ op = "next_round" THEN "started"
    ELSE "otherwise"

GroupCalled(op, g, outcome) ==
    /\ persona_sentiments' = [persona_sentiments EXCEPT ![g] = outcome.group]
    /\ agents' = [agents EXCEPT ![g] = outcome.rounds]
    /\ response' = [op |-> op, group |-> g, raised |-> outcome.raised,
                    returned |-> outcome.returned]
    /\ calls' = [calls EXCEPT ![g] = Driven(@, op)]
    /\ UNCHANGED FocusGroupsRest

Start_discussion ==
    /\ handler = "focus_group_model"
    /\ \E g \in GroupIds :
        GroupCalled("start_discussion", g,
                    StartDiscussion(persona_sentiments[g], agents[g]))

Next_round ==
    /\ handler = "focus_group_model"
    /\ \E g \in GroupIds, prompt \in Prompts :
        GroupCalled("next_round", g,
                    NextRound(persona_sentiments[g], agents[g], prompt))

Complete_round ==
    /\ handler = "focus_group_model"
    /\ \E g \in GroupIds :
        \E i \in DOMAIN agents[g] :
            GroupCalled("complete_round", g,
                        Committed(persona_sentiments[g],
                                  CompleteRound(agents[g], i), "None"))

NextFocusGroups ==
    \/ Start_discussion
    \/ Next_round
    \/ Complete_round

SpecFocusGroups == InitFocusGroups /\ [][NextFocusGroups]_vars

\* the rounds of a group are numbered 1..current_round, one row each
RoundsMatch(g) ==
    /\ 0 <= persona_sentiments[g].current_round
    /\ persona_sentiments[g].current_round <= persona_sentiments[g].max_rounds
    /\ \A n \in 1..persona_sentiments[g].current_round :
        Cardinality({i \in DOMAIN agents[g] :
                        agents[g][i].round_number = n}) = 1
    /\ \A i \in DOMAIN agents[g] :
        agents[g][i].round_number \in 1..persona_sentiments[g].current_round

\* C29 as stated: in every state of a FocusGroup reachable by start_discussion
\* and next_round calls, 0 <= current_round <= max_rounds and there is
\* exactly one FocusGroupRound for each round_number in 1..current_round and
\* none beyond it.
C29_RoundsOfEveryGroup ==
    handler = "focus_group_model" => \A g \in GroupIds : RoundsMatch(g)

\* C29 amended: the same for every FocusGroup with max_rounds >= 1.
C29_RoundsOfGroupsWithRounds ==
    handler = "focus_group_model" =>
        \A g \in GroupIds :
            persona_sentiments[g].max_rounds >= 1 => RoundsMatch(g)

C29_Witness ==
    /\ handler = "focus_group_model"
    /\ persona_sentiments["g1"].max_rounds = MaxGroupRounds
    /\ persona_sentiments["g1"].current_round = MaxGroupRounds
    /\ persona_sentiments["g1"].status = "completed"
    /\ response = [op |-> "start_discussion", group |-> "g1",
                   raised |-> "IntegrityError", returned |-> ""]

\* C30: for a FocusGroup driven by start_discussion followed by next_round
\* calls, at most one of its rounds is 'active' at any time, and once the
\* group is 'completed' every one of its rounds is 'completed'.
C30_NoRoundLeftActive ==
    handler = "focus_group_model" =>
        \A g \in GroupIds :
            calls[g] = "started" =>
                /\ Cardinality({i \in DOMAIN agents[g] :
                                   agents[g][i].status = "active"}) <= 1
                /\ persona_sentiments[g].status = "completed" =>
                    \A i \in DOMAIN agents[g] :
                        agents[g][i].status = "completed"

====
